---- MODULE Spec2Model ----
(***************************************************************************)
(* msgvault-desktop: the Model-View-Update core.                           *)
(*                                                                         *)
(*   - NavigationStack (src/model/navigation.rs): history + current view.  *)
(*   - AppState (src/model/state.rs) and the reducer handle()              *)
(*     (src/update/mod.rs): every handler is an operator from a state      *)
(*     record to [state, task]; a task is the sequence of commands the     *)
(*     handler returns (Task::none, Task::done, Task::perform,             *)
(*     Task::batch).                                                       *)
(*   - The iced runtime: commands in flight are a bag; the runtime         *)
(*     delivers them back to handle() in any order.                        *)
(*   - ThreadState, DownloadTracker and ComposeState (src/model): each     *)
(*     method is an operator on a record; thread and tracker are also      *)
(*     driven directly, as a free-standing object.                         *)
(*   - Server discovery (src/config/discovery.rs) and the first-run wizard.*)
(*   - The keyboard (handle_key_press): the match arms of the modelled     *)
(*     keys, tried in the order of the source.                             *)
(*   - Threads, settings and stepping through messages, each with the      *)
(*     requests it leaves in flight.                                       *)
(***************************************************************************)
EXTENDS Integers, Sequences, FiniteSets, Bags, TLC

VARIABLES
    stack,      \* a free-standing NavigationStack (NavSpec)
    before,     \* that stack as it was before the last call (history variable)
    call,       \* the last call made on it
    ret,        \* what the last call returned
    state,      \* the AppState threaded through handle()
    pending,    \* bag of commands handed to the runtime and not yet completed
    emitted,    \* the Task returned by the last handle() call
    lastMsg,    \* the Message handled by the last handle() call
    io,         \* what the last handle() call did to the outside world itself
    object      \* a free-standing ThreadState or DownloadTracker, or the
                \* value a pure function returned

vars == <<stack, before, call, ret, state, pending, emitted, lastMsg, io, object>>

navVars == <<stack, before, call, ret>>
appVars == <<state, pending, emitted, lastMsg, io>>

----------------------------------------------------------------------------
(* Bounds of the model *)

\* longest history the free-standing stack grows to
MaxStack == 3

\* longest history the application's stack grows to
MaxHistory == 2

\* the user acts while fewer than MaxPending commands are in flight
MaxPending == 2

\* how many default config paths get_config_paths() yields
NumConfigPaths == 2

\* longest thread loaded into a ThreadState
MaxThread == 3

----------------------------------------------------------------------------
(* Option<T> *)

None == <<"None">>
Some(x) == <<"Some", x>>
Unwrap(o) == o[2]

----------------------------------------------------------------------------
(* ViewLevel and ViewType *)

ViewTypes == {"Senders", "Domains"}

Dashboard == <<"Dashboard">>
Aggregates(view_type) == <<"Aggregates", view_type>>
Messages(filter_description) == <<"Messages", filter_description>>
MessageDetail(message_id) == <<"MessageDetail", message_id>>
Sync == <<"Sync">>
SubAggregates(parent_view_type, parent_key, view_type) ==
    <<"SubAggregates", parent_view_type, parent_key, view_type>>
Thread(thread_id) == <<"Thread", thread_id>>
Search == <<"Search">>
SettingsView == <<"Settings">>
Accounts == <<"Accounts">>

IsAggregates(view) == view[1] = "Aggregates"
IsMessages(view) == view[1] = "Messages"

----------------------------------------------------------------------------
(* NavigationStack *)

NavigationStack_new == [history |-> <<>>, current |-> Some(Dashboard)]

\* #[derive(Default)]: an empty history and no current view
NavigationStack_default == [history |-> <<>>, current |-> None]

current(nav) ==
    IF nav.current = None THEN Dashboard ELSE Unwrap(nav.current)

push(nav, view) ==
    [history |-> IF nav.current # None
                 THEN Append(nav.history, Unwrap(nav.current))
                 ELSE nav.history,
     current |-> Some(view)]

\* a pop that forgets to remove the entry it returns to
pop_keep_entry(nav) ==
    IF Len(nav.history) > 0
    THEN [nav |-> [history |-> nav.history,
                   current |-> Some(nav.history[Len(nav.history)])],
          ret |-> TRUE]
    ELSE [nav |-> nav, ret |-> FALSE]

pop(nav) ==
    IF Len(nav.history) > 0
    THEN [nav |-> [history |-> SubSeq(nav.history, 1, Len(nav.history) - 1),
                   current |-> Some(nav.history[Len(nav.history)])],
          ret |-> TRUE]
    ELSE [nav |-> nav, ret |-> FALSE]

can_go_back(nav) == Len(nav.history) # 0

\* a jump_to that truncates one entry too late
jump_to_keep_target(nav, index) ==
    IF index < Len(nav.history)
    THEN [history |-> SubSeq(nav.history, 1, index + 1),
          current |-> Some(nav.history[index + 1])]
    ELSE nav

\* index is a usize: 0-based
jump_to(nav, index) ==
    IF index < Len(nav.history)
    THEN [history |-> SubSeq(nav.history, 1, index),
          current |-> Some(nav.history[index + 1])]
    ELSE nav

\* a reset to the derived Default, whose current is None
reset_to_default(nav) == NavigationStack_default

reset(nav) == [history |-> <<>>, current |-> Some(Dashboard)]

----------------------------------------------------------------------------
(* The stack driven directly: any sequence of push, pop, jump_to, reset *)

NavViews == {Dashboard, Aggregates("Senders"), Messages("f1"), MessageDetail(1)}

NavIndices == 0 .. (MaxStack + 1)

NavInit ==
    /\ stack = NavigationStack_new
    /\ before = NavigationStack_new
    /\ call = <<"new">>
    /\ ret = FALSE

CallPush ==
    /\ Len(stack.history) < MaxStack
    /\ \E view \in NavViews :
        /\ stack' = push(stack, view)
        /\ call' = <<"push", view>>
    /\ before' = stack
    /\ ret' = FALSE
    /\ UNCHANGED <<appVars, object>>

CallPop ==
    /\ stack' = pop(stack).nav
    /\ ret' = pop(stack).ret
    /\ call' = <<"pop">>
    /\ before' = stack
    /\ UNCHANGED <<appVars, object>>

CallJumpTo ==
    /\ \E index \in NavIndices :
        /\ stack' = jump_to(stack, index)
        /\ call' = <<"jump_to", index>>
    /\ before' = stack
    /\ ret' = FALSE
    /\ UNCHANGED <<appVars, object>>

CallReset ==
    /\ stack' = reset(stack)
    /\ call' = <<"reset">>
    /\ before' = stack
    /\ ret' = FALSE
    /\ UNCHANGED <<appVars, object>>

NavNext == CallPush \/ CallPop \/ CallJumpTo \/ CallReset

----------------------------------------------------------------------------
(* AppError and its Display text (thiserror #[error] formats) *)

AppErrors == {<<"ConnectionFailed", "refused">>, <<"ApiError", 500, "boom">>}

to_string(e) ==
    CASE e[1] = "ConnectionFailed" -> <<"Connection failed: ", e[2]>>
      [] e[1] = "ApiError" -> <<"API error (", e[2], "): ", e[3]>>
      [] e[1] = "ConfigError" -> <<"Configuration error: ", e[2]>>
      [] e[1] = "RequestFailed" -> <<"Request failed: ", e[2]>>

Ok(x) == <<"Ok", x>>
Err(e) == <<"Err", e>>
IsOk(result) == result[1] = "Ok"

----------------------------------------------------------------------------
(* api::types *)

as_str(view_type) ==
    CASE view_type = "Senders" -> "senders"
      [] view_type = "SenderNames" -> "sender_names"
      [] view_type = "Recipients" -> "recipients"
      [] view_type = "RecipientNames" -> "recipient_names"
      [] view_type = "Domains" -> "domains"
      [] view_type = "Labels" -> "labels"
      [] view_type = "Time" -> "time"

display_name(view_type) ==
    CASE view_type = "Senders" -> "Senders"
      [] view_type = "SenderNames" -> "Sender Names"
      [] view_type = "Recipients" -> "Recipients"
      [] view_type = "RecipientNames" -> "Recipient Names"
      [] view_type = "Domains" -> "Domains"
      [] view_type = "Labels" -> "Labels"
      [] view_type = "Time" -> "Time"

----------------------------------------------------------------------------
(* Breadcrumbs *)

\* a title() that names the view a sub-aggregate was drilled down from
title_parent(view) ==
    CASE view = Dashboard -> <<"Dashboard">>
      [] view[1] = "Aggregates" -> <<display_name(view[2])>>
      [] view[1] = "SubAggregates" ->
            <<display_name(view[2]), " → ", display_name(view[4])>>
      [] view[1] = "Messages" -> <<view[2]>>
      [] view[1] = "MessageDetail" -> <<"Message #", view[2]>>
      [] view = Search -> <<"Search">>

\* ViewLevel::title(); a label is the tuple of the parts it is formatted from
title(view) ==
    CASE view = Dashboard -> <<"Dashboard">>
      [] view[1] = "Aggregates" -> <<display_name(view[2])>>
      [] view[1] = "SubAggregates" ->
            <<view[3], " → ", display_name(view[4])>>
      [] view[1] = "Messages" -> <<view[2]>>
      [] view[1] = "MessageDetail" -> <<"Message #", view[2]>>
      [] view = Search -> <<"Search">>

BreadcrumbEntry(view) == [label |-> title(view), view |-> view]

\* a breadcrumbs() that leaves the current view out
breadcrumbs_history_only(nav) ==
    [i \in 1 .. Len(nav.history) |-> BreadcrumbEntry(nav.history[i])]

breadcrumbs(nav) ==
    LET crumbs == [i \in 1 .. Len(nav.history) |-> BreadcrumbEntry(nav.history[i])]
    IN IF nav.current # None
       THEN Append(crumbs, BreadcrumbEntry(Unwrap(nav.current)))
       ELSE crumbs

\* the breadcrumb widget: the message each clickable crumb sends; the last
\* crumb is plain text
breadcrumb(entries) ==
    {<<"JumpToBreadcrumb", i>> : i \in 0 .. Len(entries) - 2}

----------------------------------------------------------------------------
(* Free-standing objects *)

\* one method call on the free-standing object
Call(name, new) ==
    /\ object' = new
    /\ before' = object
    /\ call' = name
    /\ UNCHANGED <<stack, ret, appVars>>

\* every ViewType
AllViewTypes ==
    {"Senders", "SenderNames", "Recipients", "RecipientNames", "Domains",
     "Labels", "Time"}

ParentKeys == {"acme.com", "a@x"}

\* every ViewLevel, over the small sets of keys, filters and ids
TitleViews ==
    {Dashboard, Search}
        \cup {Aggregates(t) : t \in AllViewTypes}
        \cup {SubAggregates(p, k, t) :
                 p \in AllViewTypes, k \in ParentKeys, t \in AllViewTypes}
        \cup {Messages(f) : f \in {"f1"}}
        \cup {MessageDetail(id) : id \in {1, 2}}

\* view.title()
CallTitle ==
    /\ object = None
    /\ \E view \in TitleViews : Call(<<"title", view>>, title(view))

\* breadcrumbs() of a stack that came to view from a parent
CallBreadcrumbs ==
    /\ object = None
    /\ \E parent \in {Dashboard, Aggregates("Senders")}, view \in TitleViews :
           LET nav == push(push(NavigationStack_new, parent), view)
           IN Call(<<"breadcrumbs", nav>>, breadcrumbs(nav))

----------------------------------------------------------------------------
(* model::thread: ThreadState.  messages holds the message ids; an index  *)
(* i of the code is position i + 1 of a sequence here.                    *)

ThreadState_new ==
    [thread_id |-> None,
     messages |-> <<>>,
     expanded |-> <<>>,
     focused_index |-> 0,
     is_loading |-> FALSE]

\* a load_messages that expands and focuses the oldest message
load_messages_oldest(t, thread_id, messages) ==
    LET len == Len(messages)
    IN [t EXCEPT !.thread_id = Some(thread_id),
                 !.expanded = [i \in 1 .. len |-> i = 1],
                 !.focused_index = 0,
                 !.messages = messages,
                 !.is_loading = FALSE]

load_messages(t, thread_id, messages) ==
    LET len == Len(messages)
    IN [t EXCEPT !.thread_id = Some(thread_id),
                 !.expanded = [i \in 1 .. len |-> i = len],
                 !.focused_index = IF len > 0 THEN len - 1 ELSE @,
                 !.messages = messages,
                 !.is_loading = FALSE]

\* a toggle_expanded that only ever expands
toggle_expanded_open(t, index) ==
    IF index < Len(t.expanded)
    THEN [t EXCEPT !.expanded[index + 1] = TRUE]
    ELSE t

toggle_expanded(t, index) ==
    IF index < Len(t.expanded)
    THEN [t EXCEPT !.expanded[index + 1] = ~@]
    ELSE t

expand_all(t) == [t EXCEPT !.expanded = [i \in DOMAIN @ |-> TRUE]]

collapse_all(t) == [t EXCEPT !.expanded = [i \in DOMAIN @ |-> FALSE]]

focus_previous(t) ==
    IF t.focused_index > 0
    THEN [t EXCEPT !.focused_index = @ - 1]
    ELSE t

\* a focus_next that wraps to the first message after the last
focus_next_wrap(t) ==
    IF t.focused_index + 1 < Len(t.messages)
    THEN [t EXCEPT !.focused_index = @ + 1]
    ELSE [t EXCEPT !.focused_index = 0]

focus_next(t) ==
    IF t.focused_index + 1 < Len(t.messages)
    THEN [t EXCEPT !.focused_index = @ + 1]
    ELSE t

is_expanded(t, index) ==
    IF index < Len(t.expanded) THEN t.expanded[index + 1] ELSE FALSE

message_count(t) == Len(t.messages)

ThreadState_clear(t) ==
    [t EXCEPT !.thread_id = None,
              !.messages = <<>>,
              !.expanded = <<>>,
              !.focused_index = 0,
              !.is_loading = FALSE]

----------------------------------------------------------------------------
(* A ThreadState driven directly: any sequence of its methods *)

ThreadIds == {"t1", "t2"}

\* the thread of n messages, oldest first
ThreadMessages(n) == [i \in 1 .. n |-> i]

CallLoadMessages ==
    \E thread_id \in ThreadIds, n \in 0 .. MaxThread :
        Call(<<"load_messages", thread_id, n>>,
             load_messages(object, thread_id, ThreadMessages(n)))

\* any index, one past the longest thread included
CallToggleExpanded ==
    \E index \in 0 .. MaxThread :
        Call(<<"toggle_expanded", index>>, toggle_expanded(object, index))

CallExpandAll == Call(<<"expand_all">>, expand_all(object))
CallCollapseAll == Call(<<"collapse_all">>, collapse_all(object))
CallFocusPrevious == Call(<<"focus_previous">>, focus_previous(object))
CallFocusNext == Call(<<"focus_next">>, focus_next(object))
CallClear == Call(<<"clear">>, ThreadState_clear(object))

----------------------------------------------------------------------------
(* model::downloads: DownloadState and DownloadTracker.  A progress is in  *)
(* hundredths (0.5 is 50); downloads is the HashMap, a function whose      *)
(* domain is the set of keys present.                                      *)

NotStarted == <<"NotStarted">>
Downloading(progress) == <<"Downloading", progress>>
Complete(path) == <<"Complete", path>>
DownloadState_Failed(error) == <<"Failed", error>>

\* f32::clamp(0.0, 1.0)
clamp(progress) ==
    IF progress < 0 THEN 0 ELSE IF progress > 100 THEN 100 ELSE progress

DownloadTracker_new == [downloads |-> [k \in {} |-> NotStarted]]

\* HashMap::insert, HashMap::remove, HashMap::retain
insert(map, key, value) ==
    [k \in (DOMAIN map) \cup {key} |-> IF k = key THEN value ELSE map[k]]
remove(map, key) == [k \in (DOMAIN map) \ {key} |-> map[k]]
retain(map, keep(_)) == [k \in {x \in DOMAIN map : keep(x)} |-> map[k]]

get(t, message_id, attachment_idx) ==
    IF <<message_id, attachment_idx>> \in DOMAIN t.downloads
    THEN t.downloads[<<message_id, attachment_idx>>]
    ELSE NotStarted

set_downloading(t, message_id, attachment_idx, progress) ==
    [t EXCEPT !.downloads = insert(@, <<message_id, attachment_idx>>,
                                   Downloading(clamp(progress)))]

set_complete(t, message_id, attachment_idx, path) ==
    [t EXCEPT !.downloads = insert(@, <<message_id, attachment_idx>>,
                                   Complete(path))]

set_failed(t, message_id, attachment_idx, error) ==
    [t EXCEPT !.downloads = insert(@, <<message_id, attachment_idx>>,
                                   DownloadState_Failed(error))]

DownloadTracker_clear(t, message_id, attachment_idx) ==
    [t EXCEPT !.downloads = remove(@, <<message_id, attachment_idx>>)]

\* a clear_message that drops every message's downloads
clear_message_every(t, message_id) ==
    [t EXCEPT !.downloads = [k \in {} |-> NotStarted]]

clear_message(t, message_id) ==
    LET keep(k) == k[1] # message_id
    IN [t EXCEPT !.downloads = retain(@, keep)]

clear_all(t) == [t EXCEPT !.downloads = [k \in {} |-> NotStarted]]

----------------------------------------------------------------------------
(* A DownloadTracker driven directly: any sequence of its methods *)

TrackedMessages == {1, 2}
TrackedIdxs == {0, 1}
TrackerKeys == TrackedMessages \X TrackedIdxs
Progresses == {-50, 50, 150}
Paths == {"/tmp/test.pdf"}
DownloadErrors == {"Network error"}

CallSetDownloading ==
    \E k \in TrackerKeys, progress \in Progresses :
        Call(<<"set_downloading", k, progress>>,
             set_downloading(object, k[1], k[2], progress))

CallSetComplete ==
    \E k \in TrackerKeys, path \in Paths :
        Call(<<"set_complete", k, path>>,
             set_complete(object, k[1], k[2], path))

CallSetFailed ==
    \E k \in TrackerKeys, error \in DownloadErrors :
        Call(<<"set_failed", k, error>>,
             set_failed(object, k[1], k[2], error))

CallTrackerClear ==
    \E k \in TrackerKeys :
        Call(<<"clear", k>>, DownloadTracker_clear(object, k[1], k[2]))

CallClearMessage ==
    \E m \in TrackedMessages :
        Call(<<"clear_message", m>>, clear_message(object, m))

CallClearAll == Call(<<"clear_all">>, clear_all(object))

----------------------------------------------------------------------------
(* model::compose: ComposeState *)

\* #[derive(Default)]: ComposeState::new(), a fresh empty draft
ComposeState_default ==
    [is_open |-> FALSE,
     mode |-> "New",
     reply_to_id |-> None,
     from_account |-> "",
     to |-> <<>>,
     cc |-> <<>>,
     bcc |-> <<>>,
     subject |-> "",
     body |-> "",
     attachments |-> <<>>,
     is_sending |-> FALSE,
     send_error |-> None,
     is_dirty |-> FALSE,
     show_cc_bcc |-> FALSE,
     to_input |-> "",
     cc_input |-> "",
     bcc_input |-> ""]

open_new(from_account) ==
    [ComposeState_default EXCEPT !.is_open = TRUE,
                                 !.mode = "New",
                                 !.from_account = from_account]

\* every field but from_account
close(c) ==
    [c EXCEPT !.is_open = FALSE,
              !.mode = "New",
              !.reply_to_id = None,
              !.to = <<>>,
              !.cc = <<>>,
              !.bcc = <<>>,
              !.subject = "",
              !.body = "",
              !.attachments = <<>>,
              !.is_sending = FALSE,
              !.send_error = None,
              !.is_dirty = FALSE,
              !.show_cc_bcc = FALSE,
              !.to_input = "",
              !.cc_input = "",
              !.bcc_input = ""]

has_content(c) ==
    \/ c.to # <<>> \/ c.cc # <<>> \/ c.bcc # <<>>
    \/ c.subject # "" \/ c.body # "" \/ c.attachments # <<>>

contains(seq, x) == \E i \in DOMAIN seq : seq[i] = x

add_to(c, email) ==
    IF email # "" /\ ~contains(c.to, email)
    THEN [c EXCEPT !.to = Append(@, email), !.is_dirty = TRUE]
    ELSE c

can_send(c) ==
    /\ c.from_account # ""
    /\ (c.to # <<>> \/ c.cc # <<>> \/ c.bcc # <<>>)
    /\ ~c.is_sending

\* str::trim() on what is typed into a recipient field
trim(input) ==
    CASE input = " b@x " -> "b@x"
      [] input = "   " -> ""
      [] OTHER -> input

----------------------------------------------------------------------------
(* ConnectionStatus, LoadingState, AppState *)

Unknown == <<"Unknown">>
Connecting == <<"Connecting">>
Connected == <<"Connected">>
Failed(reason) == <<"Failed", reason>>

Idle == <<"Idle">>
Loading == <<"Loading">>
Error(msg) == <<"Error", msg>>

\* messages per page
MessagesLimit == 50

AppState_new(settings) ==
    [connection_status |-> Unknown,
     server_url |-> settings.server_url,
     api_key |-> settings.api_key,
     first_run |-> settings.server_url = "",
     \* the wizard's fields are overwritten by StartDiscovery before the
     \* wizard is first drawn
     discovering |-> FALSE,
     wizard_step |-> "Discovering",
     discovery_steps |-> <<>>,
     discovery_result |-> None,
     navigation |-> NavigationStack_new,
     stats |-> None,
     loading |-> Idle,
     aggregates |-> <<>>,
     selected_index |-> 0,
     sort_field |-> "Count",
     sort_dir |-> "Desc",
     messages |-> <<>>,
     message_selected_index |-> 0,
     messages_offset |-> 0,
     messages_total |-> 0,
     messages_limit |-> MessagesLimit,
     filter_type |-> "",
     filter_value |-> "",
     sync_accounts |-> <<>>,
     sync_loading |-> FALSE,
     syncing_account |-> None,
     search_query |-> "",
     search_deep_mode |-> FALSE,
     search_results |-> <<>>,
     search_selected_index |-> 0,
     search_total |-> 0,
     is_searching |-> FALSE,
     selected_messages |-> {},
     current_message |-> None,
     thread |-> ThreadState_new,
     settings_server_url |-> settings.server_url,
     settings_api_key |-> settings.api_key,
     settings_tab |-> "Server",
     connection_test_result |-> None,
     downloads |-> DownloadTracker_new,
     compose |-> ComposeState_default,
     add_account_email |-> "",
     adding_account |-> FALSE,
     oauth_response |-> None,
     polling_device_flow |-> FALSE,
     show_remove_modal |-> FALSE,
     removing_account |-> None]

is_connected(s) == s.connection_status = Connected

----------------------------------------------------------------------------
(* Task<Message>: the commands a handler returns *)

\* Task::done(message): a command that only re-enters handle() with message
Done(msg) == <<"Done", msg>>

\* Task::perform(future, wrap): run the request, wrap its result into a Message
Perform(request, wrap) == <<"Perform", request, wrap>>

TaskNone == <<>>

\* what a handler does: the new state, the Task it returns, and the effects
\* it had on the outside world before returning
RIO(s, task, effects) == [state |-> s, task |-> task, io |-> effects]

R(s, task) == RIO(s, task, <<>>)

\* ApiClient::new(url, api_key) with api_key None when the key is empty
ApiClient(s) ==
    <<s.server_url, IF s.api_key = "" THEN None ELSE Some(s.api_key)>>

Request(s, endpoint, args) == <<endpoint, ApiClient(s), args>>

----------------------------------------------------------------------------
(* config::discovery: the probe chain.  The environment of one run is the  *)
(* MSGVAULT_HOME variable, the config files, and what each ping answers;   *)
(* pinged is the log of the URLs the run sent a health request to.         *)

LocalhostPorts == <<8080, 8081, 3000, 9000>>

\* format!("http://localhost:{}", port)
LocalhostUrl(port) ==
    CASE port = 8080 -> "http://localhost:8080"
      [] port = 8081 -> "http://localhost:8081"
      [] port = 3000 -> "http://localhost:3000"
      [] port = 9000 -> "http://localhost:9000"

NotFoundStep(name) == [name |-> name, status |-> <<"NotFound">>]
FoundStep(name, url) == [name |-> name, status |-> <<"Found", url>>]

DiscoveryResult(server_url, api_key, source, steps) ==
    [server_url |-> server_url, api_key |-> api_key, source |-> source, steps |-> steps]

found_server(result) == result.server_url # None
needs_wizard(result) == result.source = <<"NeedsWizard">>

\* a config file that exists, parses, and names a server
HasUrl(file) == file.exists /\ file.server_url # ""

\* ping_server for the n-th candidate of the chain
ping_server(env, n) == env.answers[n]

\* a check that records a step only for the candidates it pinged
CheckConfig_silent(env, n, file, name, source, acc) ==
    IF HasUrl(file)
    THEN IF ping_server(env, n)
         THEN LET steps == Append(acc.steps, FoundStep(name, file.server_url))
              IN [found |-> Some(DiscoveryResult(Some(file.server_url), file.api_key,
                                                 source, steps)),
                  steps |-> steps,
                  pinged |-> Append(acc.pinged, file.server_url)]
         ELSE [found |-> None,
               steps |-> Append(acc.steps, NotFoundStep(name)),
               pinged |-> Append(acc.pinged, file.server_url)]
    ELSE [found |-> None, steps |-> acc.steps, pinged |-> acc.pinged]

\* one candidate backed by a config file: ping it if it names a server
CheckConfig(env, n, file, name, source, acc) ==
    IF HasUrl(file)
    THEN IF ping_server(env, n)
         THEN LET steps == Append(acc.steps, FoundStep(name, file.server_url))
              IN [found |-> Some(DiscoveryResult(Some(file.server_url), file.api_key,
                                                 source, steps)),
                  steps |-> steps,
                  pinged |-> Append(acc.pinged, file.server_url)]
         ELSE [found |-> None,
               steps |-> Append(acc.steps, NotFoundStep(name)),
               pinged |-> Append(acc.pinged, file.server_url)]
    ELSE [found |-> None,
          steps |-> Append(acc.steps, NotFoundStep(name)),
          pinged |-> acc.pinged]

check_env_var(env, acc) ==
    IF env.home # None
    THEN CheckConfig(env, 1, Unwrap(env.home), <<"MSGVAULT_HOME">>, <<"EnvVar">>, acc)
    ELSE [found |-> None,
          steps |-> Append(acc.steps, NotFoundStep(<<"MSGVAULT_HOME">>)),
          pinged |-> acc.pinged]

RECURSIVE check_config_files(_, _, _)
check_config_files(env, i, acc) ==
    IF i > Len(env.files)
    THEN [found |-> None, steps |-> acc.steps, pinged |-> acc.pinged]
    ELSE LET r == CheckConfig(env, 1 + i, env.files[i], <<"Config: ", i>>,
                              <<"ConfigFile", i>>, acc)
         IN IF r.found # None
            THEN r
            ELSE check_config_files(env, i + 1, r)

RECURSIVE probe_localhost(_, _, _)
probe_localhost(env, i, acc) ==
    IF i > Len(LocalhostPorts)
    THEN [found |-> None, steps |-> acc.steps, pinged |-> acc.pinged]
    ELSE LET port == LocalhostPorts[i]
             url == LocalhostUrl(port)
             name == <<"Probe: localhost:", port>>
             pinged == Append(acc.pinged, url)
         IN IF ping_server(env, 1 + Len(env.files) + i)
            THEN LET steps == Append(acc.steps, FoundStep(name, url))
                 IN [found |-> Some(DiscoveryResult(Some(url), None,
                                                    <<"LocalhostProbe", port>>, steps)),
                     steps |-> steps, pinged |-> pinged]
            ELSE probe_localhost(env, i + 1,
                                 [steps |-> Append(acc.steps, NotFoundStep(name)),
                                  pinged |-> pinged])

\* a chain that stops when the MSGVAULT_HOME candidate fails
discover_server_env_ends(env) ==
    LET e == check_env_var(env, [steps |-> <<>>, pinged |-> <<>>])
    IN IF e.found # None
       THEN [result |-> Unwrap(e.found), pinged |-> e.pinged]
       ELSE [result |-> DiscoveryResult(None, None, <<"NeedsWizard">>,
                           Append(e.steps, NotFoundStep(<<"No server found">>))),
             pinged |-> e.pinged]

discover_server(env) ==
    LET e == check_env_var(env, [steps |-> <<>>, pinged |-> <<>>])
    IN IF e.found # None
       THEN [result |-> Unwrap(e.found), pinged |-> e.pinged]
       ELSE LET c == check_config_files(env, 1, e)
            IN IF c.found # None
               THEN [result |-> Unwrap(c.found), pinged |-> c.pinged]
               ELSE LET l == probe_localhost(env, 1, c)
                    IN IF l.found # None
                       THEN [result |-> Unwrap(l.found), pinged |-> l.pinged]
                       ELSE [result |-> DiscoveryResult(None, None, <<"NeedsWizard">>,
                                           Append(l.steps,
                                                  NotFoundStep(<<"No server found">>))),
                             pinged |-> l.pinged]

\* what a config.toml can be: missing or unreadable, without a server_url,
\* or naming a server
ConfigFiles ==
    {[exists |-> FALSE, server_url |-> "", api_key |-> None],
     [exists |-> TRUE, server_url |-> "", api_key |-> None],
     [exists |-> TRUE, server_url |-> "http://vault:8080", api_key |-> Some("key")]}

NumCandidates == 1 + NumConfigPaths + Len(LocalhostPorts)

Environments ==
    [home : {None} \cup {Some(f) : f \in ConfigFiles},
     files : [1 .. NumConfigPaths -> ConfigFiles],
     answers : [1 .. NumCandidates -> BOOLEAN]]

----------------------------------------------------------------------------
(* handle(): one operator per Message variant *)

\* the Settings a handler builds from the state
Settings(s) ==
    [server_url |-> s.server_url, api_key |-> s.api_key, allow_insecure |-> TRUE]

\* Settings::default()
Settings_default == [server_url |-> "", api_key |-> ""]

\* Settings::save(): create the config directory and write config.toml
save(settings) == <<"fs::write", "config.toml", settings>>

StartDiscovery(s) ==
    R([s EXCEPT !.discovering = TRUE, !.wizard_step = "Discovering"],
      <<Perform(<<"discover_server">>, "DiscoveryComplete")>>)

\* a DiscoveryComplete that takes a found server for a connected one
DiscoveryComplete_trusting(s, result) ==
    R([s EXCEPT !.discovering = FALSE,
                !.discovery_steps = result.steps,
                !.wizard_step = IF found_server(result)
                                THEN "Complete" ELSE "ManualEntry",
                !.connection_status = IF found_server(result)
                                      THEN Connected ELSE @,
                !.server_url = IF found_server(result)
                               THEN Unwrap(result.server_url) ELSE @,
                !.discovery_result = Some(result)],
      TaskNone)

DiscoveryComplete(s, result) ==
    LET s1 == [s EXCEPT !.discovering = FALSE,
                        !.discovery_steps = result.steps]
        s2 == IF found_server(result)
              THEN [s1 EXCEPT !.wizard_step = "FoundServer",
                              !.server_url = IF result.server_url # None
                                             THEN Unwrap(result.server_url)
                                             ELSE @,
                              !.api_key = IF result.api_key # None
                                          THEN Unwrap(result.api_key)
                                          ELSE @]
              ELSE [s1 EXCEPT !.wizard_step = "ManualEntry"]
    IN R([s2 EXCEPT !.discovery_result = Some(result)], TaskNone)

\* settings.save() runs inside the handler, before it returns
ConfirmDiscoveredServer(s) ==
    LET s1 == [s EXCEPT !.wizard_step = "Complete", !.first_run = FALSE]
    IN RIO(s1, <<Done(<<"CheckHealth">>)>>, <<save(Settings(s1))>>)

ChooseManualEntry(s) == R([s EXCEPT !.wizard_step = "ManualEntry"], TaskNone)

WizardServerUrlChanged(s, url) == R([s EXCEPT !.server_url = url], TaskNone)

WizardApiKeyChanged(s, key) == R([s EXCEPT !.api_key = key], TaskNone)

FinishWizard(s) ==
    IF s.server_url = ""
    THEN R(s, TaskNone)
    ELSE LET s1 == [s EXCEPT !.wizard_step = "Complete", !.first_run = FALSE]
         IN RIO(s1, <<Done(<<"CheckHealth">>)>>, <<save(Settings(s1))>>)

ServerUrlChanged(s, url) == R([s EXCEPT !.server_url = url], TaskNone)

ApiKeyChanged(s, key) == R([s EXCEPT !.api_key = key], TaskNone)

CheckHealth(s) ==
    R([s EXCEPT !.connection_status = Connecting],
      <<Perform(Request(s, "health", <<>>), "HealthChecked")>>)

\* a HealthChecked that retries on failure
HealthChecked_retry(s, result) ==
    IF IsOk(result)
    THEN R([s EXCEPT !.connection_status = Connected],
           <<Done(<<"FetchStats">>), Done(<<"FetchSyncStatus">>)>>)
    ELSE R([s EXCEPT !.connection_status = Failed(to_string(result[2]))],
           <<Done(<<"CheckHealth">>)>>)

HealthChecked(s, result) ==
    IF IsOk(result)
    THEN R([s EXCEPT !.connection_status = Connected],
           <<Done(<<"FetchStats">>), Done(<<"FetchSyncStatus">>)>>)
    ELSE R([s EXCEPT !.connection_status = Failed(to_string(result[2]))],
           TaskNone)

FetchStats(s) ==
    R([s EXCEPT !.loading = Loading],
      <<Perform(Request(s, "stats", <<>>), "StatsLoaded")>>)

StatsLoaded(s, result) ==
    IF IsOk(result)
    THEN R([s EXCEPT !.stats = Some(result[2]), !.loading = Idle], TaskNone)
    ELSE R([s EXCEPT !.loading = Error(to_string(result[2]))], TaskNone)

FetchAggregates(s, view_type) ==
    R([s EXCEPT !.loading = Loading, !.selected_index = 0],
      <<Perform(Request(s, "aggregates", <<view_type, s.sort_field, s.sort_dir>>),
                "AggregatesLoaded")>>)

AggregatesLoaded(s, result) ==
    IF IsOk(result)
    THEN R([s EXCEPT !.aggregates = result[2], !.loading = Idle], TaskNone)
    ELSE R([s EXCEPT !.loading = Error(to_string(result[2]))], TaskNone)

SelectPrevious(s) ==
    IF s.selected_index > 0
    THEN R([s EXCEPT !.selected_index = @ - 1], TaskNone)
    ELSE R(s, TaskNone)

SelectNext(s) ==
    IF s.selected_index + 1 < Len(s.aggregates)
    THEN R([s EXCEPT !.selected_index = @ + 1], TaskNone)
    ELSE R(s, TaskNone)

DrillDown(s) ==
    IF s.selected_index < Len(s.aggregates) /\ IsAggregates(current(s.navigation))
    THEN LET view_type == current(s.navigation)[2]
             key == s.aggregates[s.selected_index + 1]
             filter_desc == <<display_name(view_type), ": ", key>>
         IN R([s EXCEPT !.messages_offset = 0,
                        !.navigation = push(s.navigation, Messages(filter_desc))],
              <<Done(<<"FetchMessages", as_str(view_type), key>>)>>)
    ELSE R(s, TaskNone)

\* a cycle over three fields only, as the Message doc comment words it
NextSortField_three(sort_field) ==
    CASE sort_field = "Name" -> "Count"
      [] sort_field = "Count" -> "Size"
      [] sort_field = "Size" -> "Name"
      [] sort_field = "AttachmentSize" -> "Name"

NextSortField(sort_field) ==
    CASE sort_field = "Name" -> "Count"
      [] sort_field = "Count" -> "Size"
      [] sort_field = "Size" -> "AttachmentSize"
      [] sort_field = "AttachmentSize" -> "Name"

ToggleSortField(s) ==
    LET s1 == [s EXCEPT !.sort_field = NextSortField(s.sort_field)]
    IN IF IsAggregates(current(s1.navigation))
       THEN R(s1, <<Done(<<"FetchAggregates", current(s1.navigation)[2]>>)>>)
       ELSE R(s1, TaskNone)

FlipSortDirection(sort_dir) ==
    CASE sort_dir = "Asc" -> "Desc"
      [] sort_dir = "Desc" -> "Asc"

ToggleSortDirection(s) ==
    LET s1 == [s EXCEPT !.sort_dir = FlipSortDirection(s.sort_dir)]
    IN IF IsAggregates(current(s1.navigation))
       THEN R(s1, <<Done(<<"FetchAggregates", current(s1.navigation)[2]>>)>>)
       ELSE R(s1, TaskNone)

FetchMessages(s, filter_type, filter_value) ==
    LET s1 == [s EXCEPT !.loading = Loading,
                        !.message_selected_index = 0,
                        !.filter_type = filter_type,
                        !.filter_value = filter_value]
    IN R(s1, <<Perform(Request(s1, "messages_filter",
                               <<filter_type, filter_value,
                                 s1.messages_offset, s1.messages_limit>>),
                       "MessagesLoaded")>>)

MessagesLoaded(s, result) ==
    IF IsOk(result)
    THEN R([s EXCEPT !.messages = result[2].messages,
                     !.messages_total = result[2].total,
                     !.loading = Idle], TaskNone)
    ELSE R([s EXCEPT !.loading = Error(to_string(result[2]))], TaskNone)

\* a NextPage whose bound test is <= instead of <
NextPage_inclusive(s) ==
    LET new_offset == s.messages_offset + s.messages_limit
    IN IF new_offset <= s.messages_total
       THEN R([s EXCEPT !.messages_offset = new_offset],
              <<Done(<<"FetchMessages", s.filter_type, s.filter_value>>)>>)
       ELSE R(s, TaskNone)

NextPage(s) ==
    LET new_offset == s.messages_offset + s.messages_limit
    IN IF new_offset < s.messages_total
       THEN R([s EXCEPT !.messages_offset = new_offset],
              <<Done(<<"FetchMessages", s.filter_type, s.filter_value>>)>>)
       ELSE R(s, TaskNone)

Max0(n) == IF n > 0 THEN n ELSE 0

PreviousPage(s) ==
    IF s.messages_offset > 0
    THEN R([s EXCEPT !.messages_offset = Max0(s.messages_offset - s.messages_limit)],
           <<Done(<<"FetchMessages", s.filter_type, s.filter_value>>)>>)
    ELSE R(s, TaskNone)

OpenSync(s) ==
    R([s EXCEPT !.navigation = push(s.navigation, Sync)],
      <<Done(<<"FetchSyncStatus">>)>>)

FetchSyncStatus(s) ==
    R([s EXCEPT !.sync_loading = TRUE],
      <<Perform(Request(s, "scheduler_status", <<>>), "SyncStatusLoaded")>>)

SyncStatusLoaded(s, result) ==
    LET s1 == [s EXCEPT !.sync_loading = FALSE]
    IN IF IsOk(result)
       THEN R([s1 EXCEPT !.sync_accounts = result[2]], TaskNone)
       ELSE R([s1 EXCEPT !.loading = Error(to_string(result[2]))], TaskNone)

TriggerSync(s, email) ==
    R([s EXCEPT !.syncing_account = Some(email)],
      <<Perform(Request(s, "trigger_sync", <<email>>), "SyncTriggered")>>)

SyncTriggered(s, result) ==
    LET s1 == [s EXCEPT !.syncing_account = None]
    IN IF IsOk(result)
       THEN R(s1, <<Done(<<"FetchSyncStatus">>)>>)
       ELSE R([s1 EXCEPT !.loading = Error(to_string(result[2]))], TaskNone)

NavigateTo(s, view) ==
    LET fetch_task == IF IsAggregates(view)
                      THEN <<Done(<<"FetchAggregates", view[2]>>)>>
                      ELSE TaskNone
    IN R([s EXCEPT !.navigation = push(s.navigation, view)], fetch_task)

\* a GoBack that inspects the view it is leaving
GoBack_stale_view(s) ==
    LET s1 == [s EXCEPT !.navigation = pop(s.navigation).nav]
    IN IF IsAggregates(current(s.navigation))
       THEN R(s1, <<Done(<<"FetchAggregates", current(s.navigation)[2]>>)>>)
       ELSE R(s1, TaskNone)

GoBack(s) ==
    LET s1 == [s EXCEPT !.navigation = pop(s.navigation).nav]
    IN IF IsAggregates(current(s1.navigation))
       THEN R(s1, <<Done(<<"FetchAggregates", current(s1.navigation)[2]>>)>>)
       ELSE R(s1, TaskNone)

JumpToBreadcrumb(s, index) ==
    LET s1 == [s EXCEPT !.navigation = jump_to(s.navigation, index)]
    IN IF IsAggregates(current(s1.navigation))
       THEN R(s1, <<Done(<<"FetchAggregates", current(s1.navigation)[2]>>)>>)
       ELSE R(s1, TaskNone)

OpenMessage(s) ==
    IF s.message_selected_index < Len(s.messages)
    THEN LET message_id == s.messages[s.message_selected_index + 1]
             s1 == [s EXCEPT !.loading = Loading,
                             !.navigation = push(@, MessageDetail(message_id))]
         IN R(s1, <<Perform(Request(s, "message_detail", <<message_id>>),
                            "MessageDetailLoaded")>>)
    ELSE R(s, TaskNone)

PreviousMessage(s) ==
    IF s.message_selected_index > 0
    THEN R([s EXCEPT !.message_selected_index = @ - 1], <<Done(<<"OpenMessage">>)>>)
    ELSE R(s, TaskNone)

NextMessage(s) ==
    IF s.message_selected_index + 1 < Len(s.messages)
    THEN R([s EXCEPT !.message_selected_index = @ + 1], <<Done(<<"OpenMessage">>)>>)
    ELSE R(s, TaskNone)

MessageDetailLoaded(s, result) ==
    IF IsOk(result)
    THEN R([s EXCEPT !.current_message = Some(result[2]), !.loading = Idle],
           TaskNone)
    ELSE R([s EXCEPT !.loading = Error(to_string(result[2]))], TaskNone)

\* the closure that wraps the download's result captures the key, which the
\* request carries too
ViewThread(s, thread_id) ==
    LET s1 == [s EXCEPT !.thread.is_loading = TRUE]
        s2 == [s1 EXCEPT !.thread = ThreadState_clear(@)]
        s3 == [s2 EXCEPT !.navigation = push(@, Thread(thread_id))]
    IN R(s3, <<Perform(Request(s, "thread_messages", <<thread_id>>),
                       "ThreadLoaded")>>)

ThreadLoaded(s, result) ==
    LET s1 == [s EXCEPT !.thread.is_loading = FALSE]
        view == current(s1.navigation)
    IN IF IsOk(result)
       THEN IF view[1] = "Thread"
            THEN R([s1 EXCEPT !.thread = load_messages(@, view[2], result[2])],
                   TaskNone)
            ELSE R(s1, TaskNone)
       ELSE R([s1 EXCEPT !.loading = Error(to_string(result[2]))], TaskNone)

ToggleThreadMessage(s, index) ==
    R([s EXCEPT !.thread = toggle_expanded(@, index)], TaskNone)

ExpandAllThread(s) == R([s EXCEPT !.thread = expand_all(@)], TaskNone)

CollapseAllThread(s) == R([s EXCEPT !.thread = collapse_all(@)], TaskNone)

ThreadFocusPrevious(s) == R([s EXCEPT !.thread = focus_previous(@)], TaskNone)

ThreadFocusNext(s) == R([s EXCEPT !.thread = focus_next(@)], TaskNone)

DownloadAttachment(s, message_id, attachment_idx, filename) ==
    R([s EXCEPT !.downloads = set_downloading(@, message_id, attachment_idx, 0)],
      <<Perform(Request(s, "download_attachment",
                        <<message_id, attachment_idx, filename>>),
                "DownloadResult")>>)

DownloadProgress(s, message_id, attachment_idx, progress) ==
    R([s EXCEPT !.downloads =
                   set_downloading(@, message_id, attachment_idx, progress)],
      TaskNone)

DownloadComplete(s, message_id, attachment_idx, path) ==
    R([s EXCEPT !.downloads = set_complete(@, message_id, attachment_idx, path)],
      TaskNone)

DownloadFailed(s, message_id, attachment_idx, error) ==
    R([s EXCEPT !.downloads = set_failed(@, message_id, attachment_idx, error)],
      TaskNone)

\* open::that(&path) runs inside the handler, before it returns
OpenFile(s, path) == RIO(s, TaskNone, <<<<"open::that", path>>>>)

OpenSettings(s) ==
    R([s EXCEPT !.settings_server_url = s.server_url,
                !.settings_api_key = s.api_key,
                !.settings_tab = "Server",
                !.connection_test_result = None,
                !.navigation = push(@, SettingsView)],
      TaskNone)

\* the write to config.toml runs in the returned command
SaveSettings(s) ==
    LET s1 == [s EXCEPT !.server_url = s.settings_server_url,
                        !.api_key = s.settings_api_key]
    IN R(s1, <<Perform(<<"settings.save", Settings(s1)>>, "SettingsSaved")>>)

SettingsSaved(s, result) ==
    IF IsOk(result)
    THEN R([s EXCEPT !.navigation = pop(@).nav], TaskNone)
    ELSE R([s EXCEPT !.loading = Error(<<"Failed to save settings: ", result[2]>>)],
           TaskNone)

\* the first account's email, or the empty string
first_account(s) ==
    IF Len(s.sync_accounts) > 0 THEN s.sync_accounts[1] ELSE ""

OpenCompose(s) == R([s EXCEPT !.compose = open_new(first_account(s))], TaskNone)

ComposeToChanged(s, input) == R([s EXCEPT !.compose.to_input = input], TaskNone)

ComposeAddTo(s) ==
    LET email == trim(s.compose.to_input)
    IN R([s EXCEPT !.compose = [add_to(@, email) EXCEPT !.to_input = ""]],
         TaskNone)

ComposeSubjectChanged(s, subject) ==
    R([s EXCEPT !.compose.subject = subject, !.compose.is_dirty = TRUE],
      TaskNone)

ComposeFromChanged(s, account) ==
    R([s EXCEPT !.compose.from_account = account], TaskNone)

\* no command is returned: nothing is sent yet
ComposeSend(s) ==
    IF ~can_send(s.compose)
    THEN R(s, TaskNone)
    ELSE R([s EXCEPT !.compose.is_sending = TRUE,
                     !.compose.send_error = None],
           TaskNone)

ComposeSent(s, result) ==
    LET c == [s.compose EXCEPT !.is_sending = FALSE]
    IN IF IsOk(result)
       THEN R([s EXCEPT !.compose = close(c)], TaskNone)
       ELSE R([s EXCEPT !.compose =
                           [c EXCEPT !.send_error = Some(to_string(result[2]))]],
              TaskNone)

ComposeDiscard(s) == R([s EXCEPT !.compose = close(@)], TaskNone)

\* both branches close
ComposeClose(s) ==
    IF s.compose.is_dirty /\ has_content(s.compose)
    THEN R([s EXCEPT !.compose = close(@)], TaskNone)
    ELSE R([s EXCEPT !.compose = close(@)], TaskNone)

SelectMessage(s, index) ==
    IF index < Len(s.messages)
    THEN R([s EXCEPT !.message_selected_index = index], TaskNone)
    ELSE R(s, TaskNone)

OpenSearch(s) ==
    R([s EXCEPT !.navigation = push(s.navigation, Search),
                !.search_query = "",
                !.search_results = <<>>,
                !.search_selected_index = 0,
                !.search_total = 0], TaskNone)

SearchQueryChanged(s, query) ==
    IF query # ""
    THEN R([s EXCEPT !.search_query = query], <<Done(<<"ExecuteSearch">>)>>)
    ELSE R([s EXCEPT !.search_query = query,
                     !.search_results = <<>>,
                     !.search_total = 0], TaskNone)

ExecuteSearch(s) ==
    IF s.search_query = ""
    THEN R(s, TaskNone)
    ELSE R([s EXCEPT !.is_searching = TRUE],
           <<Perform(IF s.search_deep_mode
                     THEN Request(s, "search_deep", <<s.search_query, 0, 50>>)
                     ELSE Request(s, "search_fast", <<s.search_query, 50>>),
                     "SearchLoaded")>>)

SearchLoaded(s, result) ==
    IF IsOk(result)
    THEN R([s EXCEPT !.is_searching = FALSE,
                     !.search_results = result[2].messages,
                     !.search_total = result[2].total,
                     !.search_selected_index = 0], TaskNone)
    ELSE R([s EXCEPT !.is_searching = FALSE,
                     !.loading = Error(to_string(result[2]))], TaskNone)

SelectSearchResult(s, index) ==
    IF index < Len(s.search_results)
    THEN R([s EXCEPT !.search_selected_index = index], TaskNone)
    ELSE R(s, TaskNone)

\* Vec::get(index).map(|m| m.id)
GetId(list, index) == IF index < Len(list) THEN Some(list[index + 1]) ELSE None

\* HashSet: remove if contained, insert otherwise
Toggle(set, id) == IF id \in set THEN set \ {id} ELSE set \cup {id}

\* a ToggleSelection that always reads the message list
ToggleSelection_messages_only(s) ==
    LET message_id == GetId(s.messages, s.message_selected_index)
    IN IF message_id # None
       THEN R([s EXCEPT !.selected_messages = Toggle(@, Unwrap(message_id))], TaskNone)
       ELSE R(s, TaskNone)

ToggleSelection(s) ==
    LET view == current(s.navigation)
        message_id ==
            CASE IsMessages(view) -> GetId(s.messages, s.message_selected_index)
              [] view = Search -> GetId(s.search_results, s.search_selected_index)
              [] OTHER -> None
    IN IF message_id # None
       THEN R([s EXCEPT !.selected_messages = Toggle(@, Unwrap(message_id))], TaskNone)
       ELSE R(s, TaskNone)

OpenAccounts(s) ==
    R([s EXCEPT !.navigation = push(s.navigation, Accounts),
                !.add_account_email = "",
                !.adding_account = FALSE,
                !.oauth_response = None],
      <<Done(<<"FetchSyncStatus">>)>>)

AddAccountEmailChanged(s, email) ==
    R([s EXCEPT !.add_account_email = email], TaskNone)

\* a StartAddAccount without the empty-email guard
StartAddAccount_unguarded(s) ==
    R([s EXCEPT !.adding_account = TRUE],
      <<Perform(Request(s, "initiate_oauth", <<s.add_account_email>>),
                "OAuthInitiated")>>)

StartAddAccount(s) ==
    IF s.add_account_email = ""
    THEN R(s, TaskNone)
    ELSE R([s EXCEPT !.adding_account = TRUE],
           <<Perform(Request(s, "initiate_oauth", <<s.add_account_email>>),
                     "OAuthInitiated")>>)

\* an OAuthInitiated that starts polling by itself
OAuthInitiated_autopoll(s, result) ==
    IF IsOk(result)
    THEN LET response == result[2]
             s1 == [s EXCEPT !.oauth_response = Some(response)]
         IN IF response.device_flow
            THEN R([s1 EXCEPT !.polling_device_flow = TRUE],
                   <<Done(<<"PollDeviceFlow">>)>>)
            ELSE R(s1, <<Done(<<"OpenOAuthBrowser", response.auth_url>>)>>)
    ELSE R([s EXCEPT !.adding_account = FALSE,
                     !.loading = Error(to_string(result[2]))], TaskNone)

OAuthInitiated(s, result) ==
    IF IsOk(result)
    THEN LET response == result[2]
             s1 == [s EXCEPT !.oauth_response = Some(response)]
         IN IF response.device_flow
            THEN R([s1 EXCEPT !.polling_device_flow = TRUE], TaskNone)
            ELSE R(s1, <<Done(<<"OpenOAuthBrowser", response.auth_url>>)>>)
    ELSE R([s EXCEPT !.adding_account = FALSE,
                     !.loading = Error(to_string(result[2]))], TaskNone)

\* spawns the platform's URL opener; no state, no command
OpenOAuthBrowser(s, url) ==
    RIO(s, TaskNone, <<<<"Command::spawn", "open", url>>>>)

PollDeviceFlow(s) ==
    IF ~s.polling_device_flow
    THEN R(s, TaskNone)
    ELSE R(s, <<Perform(Request(s, "check_device_flow", <<s.add_account_email>>),
                        "DeviceFlowStatusReceived")>>)

\* a Complete that keeps the device-flow response
DeviceFlowStatusReceived_keep(s, result) ==
    IF IsOk(result) /\ result[2].status = "Complete"
    THEN R([s EXCEPT !.adding_account = FALSE,
                     !.polling_device_flow = FALSE,
                     !.add_account_email = ""],
           <<Done(<<"FetchSyncStatus">>)>>)
    ELSE R(s, TaskNone)

DeviceFlowStatusReceived(s, result) ==
    IF IsOk(result)
    THEN LET status == result[2]
         IN CASE status.status = "Complete" ->
                   R([s EXCEPT !.adding_account = FALSE,
                               !.polling_device_flow = FALSE,
                               !.oauth_response = None,
                               !.add_account_email = ""],
                     <<Done(<<"FetchSyncStatus">>)>>)
              [] status.status = "Pending" -> R(s, TaskNone)
              [] status.status \in {"Expired", "Error"} ->
                   R([s EXCEPT !.adding_account = FALSE,
                               !.polling_device_flow = FALSE,
                               !.loading = Error(IF status.error # None
                                                 THEN Unwrap(status.error)
                                                 ELSE "Device flow failed")],
                     TaskNone)
    ELSE R([s EXCEPT !.polling_device_flow = FALSE,
                     !.loading = Error(to_string(result[2]))], TaskNone)

CancelAddAccount(s) ==
    R([s EXCEPT !.adding_account = FALSE,
                !.polling_device_flow = FALSE,
                !.oauth_response = None,
                !.add_account_email = ""], TaskNone)

\* the keys modelled: Escape and Space
Min(a, b) == IF a < b THEN a ELSE b

\* the match arms for the keys of the model, in the order of the source;
\* the first arm whose pattern and guard hold is the one that runs
handle_key_press(s, key, modifiers) ==
    LET view == current(s.navigation)
    IN IF ~is_connected(s)
       THEN R(s, TaskNone)
       ELSE IF key = "Escape"
       THEN IF can_go_back(s.navigation)
            THEN R(s, <<Done(<<"GoBack">>)>>)
            ELSE R(s, TaskNone)
       ELSE IF key = "ArrowUp"
       THEN IF IsAggregates(view)
            THEN R(s, <<Done(<<"SelectPrevious">>)>>)
            ELSE IF IsMessages(view)
            THEN R(s, <<Done(<<"SelectMessage", Max0(s.message_selected_index - 1)>>)>>)
            ELSE IF view = Search
            THEN R(s, <<Done(<<"SelectSearchResult",
                               Max0(s.search_selected_index - 1)>>)>>)
            ELSE IF view[1] = "Thread"
            THEN R(s, <<Done(<<"ThreadFocusPrevious">>)>>)
            ELSE R(s, TaskNone)
       ELSE IF key = "ArrowDown"
       THEN IF IsAggregates(view)
            THEN R(s, <<Done(<<"SelectNext">>)>>)
            ELSE IF IsMessages(view)
            THEN R(s, <<Done(<<"SelectMessage",
                               Min(s.message_selected_index + 1,
                                   Max0(Len(s.messages) - 1))>>)>>)
            ELSE IF view = Search
            THEN R(s, <<Done(<<"SelectSearchResult",
                               Min(s.search_selected_index + 1,
                                   Max0(Len(s.search_results) - 1))>>)>>)
            ELSE IF view[1] = "Thread"
            THEN R(s, <<Done(<<"ThreadFocusNext">>)>>)
            ELSE R(s, TaskNone)
       ELSE IF key = "ArrowLeft"
       THEN IF view[1] = "MessageDetail"
            THEN R(s, <<Done(<<"PreviousMessage">>)>>)
            ELSE R(s, TaskNone)
       ELSE IF key = "ArrowRight"
       THEN IF view[1] = "MessageDetail"
            THEN R(s, <<Done(<<"NextMessage">>)>>)
            ELSE R(s, TaskNone)
       ELSE IF key = "r" /\ ~modifiers.shift
       THEN IF IsAggregates(view)
            THEN R(s, <<Done(<<"ToggleSortDirection">>)>>)
            ELSE R(s, TaskNone)
       ELSE IF key = "Space"
       THEN IF IsMessages(view) \/ view = Search
            THEN R(s, <<Done(<<"ToggleSelection">>)>>)
            ELSE R(s, TaskNone)
       ELSE IF key = "r" /\ ~modifiers.shift /\ view[1] = "MessageDetail"
       THEN R(s, <<Done(<<"OpenReply", view[2]>>)>>)
       ELSE IF key = "t" /\ ~modifiers.shift /\ view[1] = "MessageDetail"
       THEN IF s.current_message # None
               /\ Unwrap(s.current_message).thread_id # None
            THEN R(s, <<Done(<<"ViewThread",
                               Unwrap(Unwrap(s.current_message).thread_id)>>)>>)
            ELSE R(s, TaskNone)
       ELSE IF key = "e" /\ ~modifiers.shift /\ view[1] = "Thread"
       THEN R(s, <<Done(<<"ExpandAllThread">>)>>)
       ELSE IF key = "E" /\ modifiers.shift /\ view[1] = "Thread"
       THEN R(s, <<Done(<<"CollapseAllThread">>)>>)
       ELSE R(s, TaskNone)

handle(s, msg) ==
    CASE msg[1] = "StartDiscovery" -> StartDiscovery(s)
      [] msg[1] = "DiscoveryComplete" -> DiscoveryComplete(s, msg[2])
      [] msg[1] = "ConfirmDiscoveredServer" -> ConfirmDiscoveredServer(s)
      [] msg[1] = "ChooseManualEntry" -> ChooseManualEntry(s)
      [] msg[1] = "WizardServerUrlChanged" -> WizardServerUrlChanged(s, msg[2])
      [] msg[1] = "WizardApiKeyChanged" -> WizardApiKeyChanged(s, msg[2])
      [] msg[1] = "FinishWizard" -> FinishWizard(s)
      [] msg[1] = "ServerUrlChanged" -> ServerUrlChanged(s, msg[2])
      [] msg[1] = "ApiKeyChanged" -> ApiKeyChanged(s, msg[2])
      [] msg[1] = "CheckHealth" -> CheckHealth(s)
      [] msg[1] = "HealthChecked" -> HealthChecked(s, msg[2])
      [] msg[1] = "FetchStats" -> FetchStats(s)
      [] msg[1] = "StatsLoaded" -> StatsLoaded(s, msg[2])
      [] msg[1] = "FetchAggregates" -> FetchAggregates(s, msg[2])
      [] msg[1] = "AggregatesLoaded" -> AggregatesLoaded(s, msg[2])
      [] msg[1] = "SelectPrevious" -> SelectPrevious(s)
      [] msg[1] = "SelectNext" -> SelectNext(s)
      [] msg[1] = "DrillDown" -> DrillDown(s)
      [] msg[1] = "ToggleSortField" -> ToggleSortField(s)
      [] msg[1] = "ToggleSortDirection" -> ToggleSortDirection(s)
      [] msg[1] = "FetchMessages" -> FetchMessages(s, msg[2], msg[3])
      [] msg[1] = "MessagesLoaded" -> MessagesLoaded(s, msg[2])
      [] msg[1] = "NextPage" -> NextPage(s)
      [] msg[1] = "PreviousPage" -> PreviousPage(s)
      [] msg[1] = "OpenSync" -> OpenSync(s)
      [] msg[1] = "FetchSyncStatus" -> FetchSyncStatus(s)
      [] msg[1] = "SyncStatusLoaded" -> SyncStatusLoaded(s, msg[2])
      [] msg[1] = "TriggerSync" -> TriggerSync(s, msg[2])
      [] msg[1] = "SyncTriggered" -> SyncTriggered(s, msg[2])
      [] msg[1] = "NavigateTo" -> NavigateTo(s, msg[2])
      [] msg[1] = "GoBack" -> GoBack(s)
      [] msg[1] = "JumpToBreadcrumb" -> JumpToBreadcrumb(s, msg[2])
      [] msg[1] = "SelectMessage" -> SelectMessage(s, msg[2])
      [] msg[1] = "OpenMessage" -> OpenMessage(s)
      [] msg[1] = "MessageDetailLoaded" -> MessageDetailLoaded(s, msg[2])
      [] msg[1] = "PreviousMessage" -> PreviousMessage(s)
      [] msg[1] = "NextMessage" -> NextMessage(s)
      [] msg[1] = "ViewThread" -> ViewThread(s, msg[2])
      [] msg[1] = "ThreadLoaded" -> ThreadLoaded(s, msg[2])
      [] msg[1] = "ToggleThreadMessage" -> ToggleThreadMessage(s, msg[2])
      [] msg[1] = "ExpandAllThread" -> ExpandAllThread(s)
      [] msg[1] = "CollapseAllThread" -> CollapseAllThread(s)
      [] msg[1] = "ThreadFocusPrevious" -> ThreadFocusPrevious(s)
      [] msg[1] = "ThreadFocusNext" -> ThreadFocusNext(s)
      [] msg[1] = "DownloadAttachment" ->
            DownloadAttachment(s, msg[2], msg[3], msg[4])
      [] msg[1] = "DownloadProgress" ->
            DownloadProgress(s, msg[2], msg[3], msg[4])
      [] msg[1] = "DownloadComplete" ->
            DownloadComplete(s, msg[2], msg[3], msg[4])
      [] msg[1] = "DownloadFailed" ->
            DownloadFailed(s, msg[2], msg[3], msg[4])
      [] msg[1] = "OpenFile" -> OpenFile(s, msg[2])
      [] msg[1] = "OpenSettings" -> OpenSettings(s)
      [] msg[1] = "SaveSettings" -> SaveSettings(s)
      [] msg[1] = "SettingsSaved" -> SettingsSaved(s, msg[2])
      [] msg[1] = "OpenCompose" -> OpenCompose(s)
      [] msg[1] = "ComposeToChanged" -> ComposeToChanged(s, msg[2])
      [] msg[1] = "ComposeAddTo" -> ComposeAddTo(s)
      [] msg[1] = "ComposeSubjectChanged" -> ComposeSubjectChanged(s, msg[2])
      [] msg[1] = "ComposeFromChanged" -> ComposeFromChanged(s, msg[2])
      [] msg[1] = "ComposeSend" -> ComposeSend(s)
      [] msg[1] = "ComposeSent" -> ComposeSent(s, msg[2])
      [] msg[1] = "ComposeDiscard" -> ComposeDiscard(s)
      [] msg[1] = "ComposeClose" -> ComposeClose(s)
      [] msg[1] = "OpenSearch" -> OpenSearch(s)
      [] msg[1] = "SearchQueryChanged" -> SearchQueryChanged(s, msg[2])
      [] msg[1] = "ExecuteSearch" -> ExecuteSearch(s)
      [] msg[1] = "SearchLoaded" -> SearchLoaded(s, msg[2])
      [] msg[1] = "SelectSearchResult" -> SelectSearchResult(s, msg[2])
      [] msg[1] = "ToggleSelection" -> ToggleSelection(s)
      [] msg[1] = "KeyPressed" -> handle_key_press(s, msg[2], msg[3])
      [] msg[1] = "OpenAccounts" -> OpenAccounts(s)
      [] msg[1] = "AddAccountEmailChanged" -> AddAccountEmailChanged(s, msg[2])
      [] msg[1] = "StartAddAccount" -> StartAddAccount(s)
      [] msg[1] = "OAuthInitiated" -> OAuthInitiated(s, msg[2])
      [] msg[1] = "OpenOAuthBrowser" -> OpenOAuthBrowser(s, msg[2])
      [] msg[1] = "PollDeviceFlow" -> PollDeviceFlow(s)
      [] msg[1] = "DeviceFlowStatusReceived" -> DeviceFlowStatusReceived(s, msg[2])
      [] msg[1] = "CancelAddAccount" -> CancelAddAccount(s)

----------------------------------------------------------------------------
(* view::connected_view: what the main panel shows for a state *)

\* view::accounts: the device-flow panel, the waiting panel, or the form
add_account_section(email, adding, oauth_response) ==
    IF oauth_response # None /\ Unwrap(oauth_response).device_flow
    THEN LET oauth == Unwrap(oauth_response)
         IN <<"device_flow_section",
              IF oauth.user_code # None THEN Unwrap(oauth.user_code) ELSE "------",
              IF oauth.verification_url # None THEN Unwrap(oauth.verification_url) ELSE "">>
    ELSE IF adding
         THEN <<"Initiating OAuth...">>
         ELSE <<"form", email>>

view_content(s) ==
    LET view == current(s.navigation)
    IN CASE view[1] = "Dashboard" ->
              IF s.stats # None
              THEN <<"dashboard", Unwrap(s.stats)>>
              ELSE <<"loading", "Loading statistics...">>
         [] view[1] = "Aggregates" ->
              <<"aggregates_view", view[2], s.aggregates, s.selected_index,
                s.sort_field, s.sort_dir>>
         [] view[1] = "Messages" ->
              <<"messages_view", view[2], s.messages, s.message_selected_index,
                s.messages_offset, s.messages_total, s.selected_messages>>
         [] view[1] = "Sync" ->
              <<"sync_view", s.sync_accounts, s.sync_loading, s.syncing_account>>
         [] view[1] = "Accounts" ->
              <<"accounts_view", s.sync_accounts, s.sync_loading,
                add_account_section(s.add_account_email, s.adding_account,
                                    s.oauth_response),
                s.show_remove_modal, s.removing_account>>
         [] view[1] = "Search" ->
              <<"search_view", s.search_query, s.search_deep_mode, s.search_results,
                s.search_selected_index, s.search_total, s.is_searching,
                s.selected_messages>>

connected_view(s) ==
    CASE s.loading = Loading -> <<"loading", "Loading...">>
      [] s.loading[1] = "Error" -> <<"error", s.loading[2]>>
      [] s.loading = Idle -> view_content(s)

----------------------------------------------------------------------------
(* The server, as the transport collaborator sees it: any Result *)

StatsResponses == {"stats1"}
AggregateRows == {<<"k1">>}
MessageLists == {<<1, 2>>}
\* the last page of a listing is shorter than the pages before it
LastPages == {<<3>>}
Totals == {100, 120}
AccountLists == {<<>>, <<"a@x">>}
SearchLists == {<<>>, <<2, 3>>}

\* POST /api/v1/auth/initiate/{email}: a browser flow or a device flow
OAuthResponses(email) ==
    {[auth_url |-> <<"https://auth/", email>>, device_flow |-> FALSE,
      user_code |-> None, verification_url |-> None],
     [auth_url |-> <<"https://auth/", email>>, device_flow |-> TRUE,
      user_code |-> Some(<<"code-", email>>),
      verification_url |-> Some("https://verify")]}

\* GET /api/v1/auth/device/{email}/status
DeviceFlowStatuses ==
    {[status |-> "Pending", error |-> None],
     [status |-> "Complete", error |-> None],
     [status |-> "Expired", error |-> None],
     [status |-> "Error", error |-> Some("access_denied")]}

\* the file names of a message's attachments
AttachmentLists == {<<"a.pdf">>}
\* the messages of a thread, by id; a thread may come back empty
ThreadReplies == {<<>>, <<1, 2>>}

OkResults(request) ==
    CASE request[1] = "health" -> {Ok("ok")}
      [] request[1] = "stats" -> {Ok(x) : x \in StatsResponses}
      [] request[1] = "aggregates" -> {Ok(x) : x \in AggregateRows}
      [] request[1] = "messages_filter" ->
            {Ok([messages |-> m, total |-> n]) :
                m \in (IF request[3][3] = 0 THEN MessageLists ELSE LastPages),
                n \in Totals}
      [] request[1] = "message_detail" ->
            {Ok([id |-> request[3][1], thread_id |-> Some("t1"), attachments |-> a]) :
                a \in AttachmentLists}
      [] request[1] = "thread_messages" -> {Ok(m) : m \in ThreadReplies}
      [] request[1] = "settings.save" -> {Ok(<<>>)}
      [] request[1] = "download_attachment" -> {Ok(path) : path \in Paths}
      [] request[1] = "scheduler_status" -> {Ok(x) : x \in AccountLists}
      [] request[1] = "trigger_sync" -> {Ok("queued")}
      [] request[1] = "initiate_oauth" -> {Ok(x) : x \in OAuthResponses(request[3][1])}
      [] request[1] = "check_device_flow" -> {Ok(x) : x \in DeviceFlowStatuses}
      [] request[1] \in {"search_fast", "search_deep"} ->
            {Ok([messages |-> m, total |-> Len(m)]) : m \in SearchLists}

\* what the server may answer when it fails with one of errors
ResultsFor(request, errors) == OkResults(request) \cup {Err(e) : e \in errors}

OneError == {<<"ApiError", 500, "boom">>}
NoError == {}

----------------------------------------------------------------------------
(* The runtime: MsgVaultApp::new, update, and the commands in flight *)

SeqToBag(task) ==
    [c \in {task[i] : i \in DOMAIN task} |->
        Cardinality({i \in DOMAIN task : task[i] = c})]

StartupSettings == [server_url |-> "http://localhost:8080", api_key |-> ""]

\* MsgVaultApp::new: discovery at first run, a health check otherwise
initial_task(settings) ==
    IF settings.server_url = ""
    THEN <<Done(<<"StartDiscovery">>)>>
    ELSE <<Done(<<"CheckHealth">>)>>

\* MsgVaultApp::new: the state from the settings and the initial task
MsgVaultApp_new(settings) ==
    /\ state = AppState_new(settings)
    /\ pending = SeqToBag(initial_task(settings))
    /\ emitted = initial_task(settings)
    /\ lastMsg = <<"Init">>
    /\ io = <<>>

AppInit == MsgVaultApp_new(StartupSettings)

Init == NavInit /\ AppInit /\ object = None

\* MsgVaultApp::update: one handle() call; its task goes to the runtime
Step(msg, rest) ==
    LET r == handle(state, msg)
    IN /\ state' = r.state
       /\ emitted' = r.task
       /\ lastMsg' = msg
       /\ pending' = rest (+) SeqToBag(r.task)
       /\ io' = r.io
       /\ UNCHANGED <<navVars, object>>

\* a widget or key press produces msg
FromUser(msg) ==
    /\ BagCardinality(pending) < MaxPending
    /\ Step(msg, pending)

\* a Task::done(msg) in flight produces its message
FromDone(name) ==
    \E c \in BagToSet(pending) :
        /\ c[1] = "Done"
        /\ c[2][1] = name
        /\ Step(c[2], pending (-) SetToBag({c}))

\* a Task::perform in flight completes with a result the server can give
FromPerform(wrap, errors) ==
    \E c \in BagToSet(pending) :
        /\ c[1] = "Perform"
        /\ c[3] = wrap
        /\ \E result \in ResultsFor(c[2], errors) :
              Step(<<wrap, result>>, pending (-) SetToBag({c}))

accounts(s) == {s.sync_accounts[i] : i \in DOMAIN s.sync_accounts}

in_aggregates(s) == IsAggregates(current(s.navigation))
in_messages(s) == IsMessages(current(s.navigation))
in_sync(s) == current(s.navigation) = Sync

CanPush(s) == Len(s.navigation.history) < MaxHistory

\* render: the wizard, the connection view or the main view
in_wizard(s) == s.first_run /\ s.wizard_step # "Complete"
in_connection_view(s) == ~in_wizard(s) /\ ~is_connected(s)

\* connection_view's Connect button
UserCheckHealth == in_connection_view(state) /\ FromUser(<<"CheckHealth">>)

RunCheckHealth == FromDone("CheckHealth")
RunHealthChecked == FromPerform("HealthChecked", AppErrors)
RunFetchStats == FromDone("FetchStats")
RunStatsLoaded == FromPerform("StatsLoaded", AppErrors)
RunFetchAggregates == FromDone("FetchAggregates")
RunFetchMessages == FromDone("FetchMessages")
RunMessagesLoaded == FromPerform("MessagesLoaded", OneError)
RunFetchSyncStatus == FromDone("FetchSyncStatus")
RunSyncStatusLoaded == FromPerform("SyncStatusLoaded", AppErrors)
RunSyncTriggered == FromPerform("SyncTriggered", AppErrors)

\* the same completions where the server does not fail
RunHealthCheckedOk == FromPerform("HealthChecked", NoError)
RunStatsLoadedOk == FromPerform("StatsLoaded", NoError)
RunSyncStatusLoadedOk == FromPerform("SyncStatusLoaded", NoError)
RunAggregatesLoadedOk == FromPerform("AggregatesLoaded", NoError)

NavigateToAny(views) ==
    /\ is_connected(state)
    /\ CanPush(state)
    /\ \E view \in views : FromUser(<<"NavigateTo", view>>)

\* sidebar: Dashboard, the browse items, one item per account
SidebarViews(s) ==
    {Dashboard} \cup {Aggregates(vt) : vt \in ViewTypes}
    \cup {Messages(<<"Account: ", a>>) : a \in accounts(s)}

UserNavigateTo == NavigateToAny(SidebarViews(state))

\* the browse items
UserBrowse == NavigateToAny({Aggregates(vt) : vt \in ViewTypes})

\* one browse item
UserBrowseSenders == NavigateToAny({Aggregates("Senders")})

UserOpenSync ==
    /\ is_connected(state)
    /\ CanPush(state)
    /\ FromUser(<<"OpenSync">>)

\* key Escape
UserGoBack ==
    /\ is_connected(state) /\ can_go_back(state.navigation)
    /\ FromUser(<<"GoBack">>)

\* the breadcrumb bar: every crumb but the last is a button
UserJumpToBreadcrumb ==
    /\ is_connected(state)
    /\ \E index \in 0 .. (Len(state.navigation.history) - 1) :
          FromUser(<<"JumpToBreadcrumb", index>>)

\* keys Enter, s, r in an aggregate view
UserDrillDown ==
    /\ is_connected(state) /\ in_aggregates(state) /\ CanPush(state)
    /\ FromUser(<<"DrillDown">>)

UserToggleSortField ==
    /\ is_connected(state) /\ in_aggregates(state)
    /\ FromUser(<<"ToggleSortField">>)

UserToggleSortDirection ==
    /\ is_connected(state) /\ in_aggregates(state)
    /\ FromUser(<<"ToggleSortDirection">>)

\* keys n, p in a message list
UserNextPage ==
    /\ is_connected(state) /\ in_messages(state)
    /\ FromUser(<<"NextPage">>)

UserPreviousPage ==
    /\ is_connected(state) /\ in_messages(state)
    /\ FromUser(<<"PreviousPage">>)

\* sync view: Refresh, and Sync Now per account
UserFetchSyncStatus ==
    /\ is_connected(state) /\ in_sync(state)
    /\ FromUser(<<"FetchSyncStatus">>)

UserTriggerSync ==
    /\ is_connected(state) /\ in_sync(state)
    /\ \E email \in accounts(state) : FromUser(<<"TriggerSync", email>>)

in_search(s) == current(s.navigation) = Search

RunMessagesLoadedOk == FromPerform("MessagesLoaded", NoError)

\* key j / k in a message list
UserSelectMessage ==
    /\ is_connected(state) /\ in_messages(state)
    /\ \E index \in 0 .. (Len(state.messages) - 1) :
          FromUser(<<"SelectMessage", index>>)

\* sidebar: Search
UserOpenSearch ==
    /\ is_connected(state)
    /\ CanPush(state)
    /\ FromUser(<<"OpenSearch">>)

SearchQueries == {"", "q"}

\* the search input
UserSearchQueryChanged ==
    /\ is_connected(state) /\ in_search(state)
    /\ \E query \in SearchQueries : FromUser(<<"SearchQueryChanged", query>>)

RunExecuteSearch == FromDone("ExecuteSearch")
RunSearchLoadedOk == FromPerform("SearchLoaded", NoError)

\* key j / k in the search view
UserSelectSearchResult ==
    /\ is_connected(state) /\ in_search(state)
    /\ \E index \in 0 .. (Len(state.search_results) - 1) :
          FromUser(<<"SelectSearchResult", index>>)

\* a key press reaches handle() as KeyPressed
NoModifiers == [shift |-> FALSE]

UserPressSpace == FromUser(<<"KeyPressed", "Space", NoModifiers>>)

RunToggleSelection == FromDone("ToggleSelection")

in_accounts(s) == current(s.navigation) = Accounts

\* the accounts view is on screen, showing this panel of add_account_section
AccountsPanel(s) ==
    IF is_connected(s) /\ in_accounts(s) /\ s.loading = Idle
    THEN add_account_section(s.add_account_email, s.adding_account,
                             s.oauth_response)[1]
    ELSE "none"

\* sidebar: Accounts
UserOpenAccounts ==
    /\ is_connected(state)
    /\ CanPush(state)
    /\ FromUser(<<"OpenAccounts">>)

Emails == {"", "a@x", "b@x"}

\* the email input of the form
UserAddAccountEmailChanged ==
    /\ AccountsPanel(state) = "form"
    /\ \E email \in Emails : FromUser(<<"AddAccountEmailChanged", email>>)

\* Add Account: pressable when the email is not empty
UserStartAddAccount ==
    /\ AccountsPanel(state) = "form"
    /\ state.add_account_email # ""
    /\ FromUser(<<"StartAddAccount">>)

\* Check Status, in the device-flow panel
UserPollDeviceFlow ==
    /\ AccountsPanel(state) = "device_flow_section"
    /\ FromUser(<<"PollDeviceFlow">>)

\* Cancel, in the device-flow panel and in the waiting panel
UserCancelAddAccount ==
    /\ AccountsPanel(state) \in {"device_flow_section", "Initiating OAuth..."}
    /\ FromUser(<<"CancelAddAccount">>)

RunOAuthInitiated == FromPerform("OAuthInitiated", OneError)
RunOpenOAuthBrowser == FromDone("OpenOAuthBrowser")
RunDeviceFlowStatusReceived == FromPerform("DeviceFlowStatusReceived", OneError)

----------------------------------------------------------------------------
(* a message's detail and its attachments *)

in_detail(s) == current(s.navigation)[1] = "MessageDetail"

\* key Enter in a message list
UserOpenMessage ==
    /\ is_connected(state) /\ in_messages(state)
    /\ Len(state.navigation.history) <= MaxHistory
    /\ FromUser(<<"OpenMessage">>)

RunMessageDetailLoadedOk == FromPerform("MessageDetailLoaded", NoError)

\* attachment_row: Download when not started, Retry when failed
UserDownloadAttachment ==
    /\ is_connected(state) /\ in_detail(state)
    /\ state.loading = Idle
    /\ state.current_message # None
    /\ LET detail == Unwrap(state.current_message)
       IN \E idx \in 0 .. (Len(detail.attachments) - 1) :
             /\ get(state.downloads, detail.id, idx)[1] \in {"NotStarted", "Failed"}
             /\ FromUser(<<"DownloadAttachment", detail.id, idx,
                           detail.attachments[idx + 1]>>)

\* the download ends; its closure turns the result into DownloadComplete
\* or DownloadFailed for the key it captured
DownloadResult(request, result) ==
    IF IsOk(result)
    THEN <<"DownloadComplete", request[3][1], request[3][2], result[2]>>
    ELSE <<"DownloadFailed", request[3][1], request[3][2], to_string(result[2])>>

RunDownloadFinished ==
    \E c \in BagToSet(pending) :
        /\ c[1] = "Perform"
        /\ c[3] = "DownloadResult"
        /\ \E result \in ResultsFor(c[2], OneError) :
              Step(DownloadResult(c[2], result), pending (-) SetToBag({c}))

\* the keyboard subscription: a key press in any view
DetailKeys == {"Escape", "ArrowLeft", "ArrowRight", "r"}
AllModifiers == {[shift |-> FALSE], [shift |-> TRUE]}

UserPressKey ==
    \E key \in DetailKeys, modifiers \in AllModifiers :
        /\ key \in {"ArrowLeft", "ArrowRight"}
               => Len(state.navigation.history) <= MaxHistory + 1
        /\ FromUser(<<"KeyPressed", key, modifiers>>)

RunGoBack == FromDone("GoBack")
RunPreviousMessage == FromDone("PreviousMessage")
RunNextMessage == FromDone("NextMessage")
RunOpenMessage == FromDone("OpenMessage")
RunToggleSortDirection == FromDone("ToggleSortDirection")

\* the keys of the thread view, and t, which opens it
ThreadKeys == {"Escape", "t", "e", "E", "ArrowUp", "ArrowDown"}

UserPressThreadKey ==
    /\ is_connected(state)
    /\ current(state.navigation)[1] \in {"MessageDetail", "Thread"}
    /\ \E key \in ThreadKeys :
          FromUser(<<"KeyPressed", key, [shift |-> key = "E"]>>)

RunViewThread == FromDone("ViewThread")
RunThreadLoaded == FromPerform("ThreadLoaded", OneError)
RunExpandAllThread == FromDone("ExpandAllThread")
RunCollapseAllThread == FromDone("CollapseAllThread")
RunThreadFocusPrevious == FromDone("ThreadFocusPrevious")
RunThreadFocusNext == FromDone("ThreadFocusNext")

----------------------------------------------------------------------------
(* the settings screen *)

in_settings(s) == current(s.navigation) = SettingsView

\* sidebar: Settings, or the comma key
UserOpenSettings ==
    /\ is_connected(state)
    /\ CanPush(state)
    /\ FromUser(<<"OpenSettings">>)

\* Save, in the settings screen
UserSaveSettings ==
    /\ is_connected(state) /\ in_settings(state)
    /\ FromUser(<<"SaveSettings">>)

SaveErrors == {"Failed to write config: denied"}

\* the write ends, with Ok(()) or with the text of its error
RunSettingsSaved ==
    \E c \in BagToSet(pending) :
        /\ c[1] = "Perform"
        /\ c[3] = "SettingsSaved"
        /\ \E result \in OkResults(c[2]) \cup {Err(e) : e \in SaveErrors} :
              Step(<<"SettingsSaved", result>>, pending (-) SetToBag({c}))

----------------------------------------------------------------------------
(* composing a message *)

\* key c while no draft is open
UserOpenCompose ==
    /\ is_connected(state) /\ ~state.compose.is_open
    /\ FromUser(<<"OpenCompose">>)

ToInputs == {"", " b@x ", "c@x"}
Subjects == {"", "hello"}

\* the compose modal's fields and buttons
UserComposeToChanged ==
    /\ state.compose.is_open
    /\ \E input \in ToInputs : FromUser(<<"ComposeToChanged", input>>)

UserComposeAddTo == state.compose.is_open /\ FromUser(<<"ComposeAddTo">>)

UserComposeSubjectChanged ==
    /\ state.compose.is_open
    /\ \E subject \in Subjects : FromUser(<<"ComposeSubjectChanged", subject>>)

\* Send is pressable only when can_send()
UserComposeSend ==
    /\ state.compose.is_open /\ can_send(state.compose)
    /\ FromUser(<<"ComposeSend">>)

UserComposeDiscard == state.compose.is_open /\ FromUser(<<"ComposeDiscard">>)

UserComposeClose == state.compose.is_open /\ FromUser(<<"ComposeClose">>)

----------------------------------------------------------------------------
(* discovery at first launch, and the wizard *)

RunStartDiscovery == FromDone("StartDiscovery")

\* discover_server() completes with what it finds in some environment
RunDiscoveryComplete ==
    \E c \in BagToSet(pending) :
        /\ c[1] = "Perform"
        /\ c[3] = "DiscoveryComplete"
        /\ \E env \in Environments :
              Step(<<"DiscoveryComplete", discover_server(env).result>>,
                   pending (-) SetToBag({c}))

\* what the user types into a server URL or API key field
TypedUrls == {"", "http://typed:8080"}
TypedKeys == {"", "typed-key"}

\* found_server_view's two buttons
UserConfirmDiscoveredServer ==
    /\ in_wizard(state)
    /\ state.wizard_step = "FoundServer"
    /\ state.discovery_result # None
    /\ FromUser(<<"ConfirmDiscoveredServer">>)

UserChooseManualEntry ==
    /\ in_wizard(state)
    /\ state.wizard_step = "FoundServer"
    /\ state.discovery_result # None
    /\ FromUser(<<"ChooseManualEntry">>)

\* manual_entry_view's inputs and its Connect button
UserWizardServerUrlChanged ==
    /\ in_wizard(state)
    /\ state.wizard_step = "ManualEntry"
    /\ \E url \in TypedUrls : FromUser(<<"WizardServerUrlChanged", url>>)

UserWizardApiKeyChanged ==
    /\ in_wizard(state)
    /\ state.wizard_step = "ManualEntry"
    /\ \E key \in TypedKeys : FromUser(<<"WizardApiKeyChanged", key>>)

UserFinishWizard ==
    /\ in_wizard(state)
    /\ state.wizard_step = "ManualEntry"
    /\ FromUser(<<"FinishWizard">>)

\* connection_view's server URL input
UserServerUrlChanged ==
    /\ in_connection_view(state)
    /\ \E url \in TypedUrls : FromUser(<<"ServerUrlChanged", url>>)

\* discover_server runs once, at first launch, in some environment
CallDiscoverServer ==
    /\ call[1] # "discover_server"
    /\ \E env \in Environments :
          /\ call' = <<"discover_server", env>>
          /\ ret' = discover_server(env)
    /\ UNCHANGED <<stack, before>>
    /\ UNCHANGED <<appVars, object>>

DiscNext == CallDiscoverServer

DiscSpec == Init /\ [][DiscNext]_vars

----------------------------------------------------------------------------
(* Specifications *)

\* connecting, and the two fetches that follow it; the sync view
ConnNext ==
    \/ UserCheckHealth \/ RunCheckHealth \/ RunHealthChecked
    \/ RunFetchStats \/ RunStatsLoaded
    \/ RunFetchSyncStatus \/ RunSyncStatusLoaded
    \/ UserOpenSync \/ UserGoBack
    \/ UserFetchSyncStatus \/ UserTriggerSync \/ RunSyncTriggered

ConnSpec == Init /\ [][ConnNext]_vars

\* browsing: the sidebar, back and breadcrumbs
Next ==
    \/ RunCheckHealth \/ RunHealthCheckedOk
    \/ RunFetchStats \/ RunStatsLoadedOk
    \/ RunFetchSyncStatus \/ RunSyncStatusLoadedOk
    \/ UserNavigateTo \/ UserGoBack \/ UserJumpToBreadcrumb
    \/ UserToggleSortField
    \/ RunFetchAggregates \/ RunAggregatesLoadedOk

Spec == Init /\ [][Next]_vars

\* the aggregate views and the sort toggles
SortNext ==
    \/ RunCheckHealth \/ RunHealthCheckedOk
    \/ RunFetchStats \/ RunStatsLoadedOk
    \/ RunFetchSyncStatus \/ RunSyncStatusLoadedOk
    \/ UserBrowse \/ UserGoBack
    \/ UserToggleSortField \/ UserToggleSortDirection
    \/ RunFetchAggregates \/ RunAggregatesLoadedOk

SortSpec == Init /\ [][SortNext]_vars

\* paging through a drilled-down message list
PageNext ==
    \/ RunCheckHealth \/ RunHealthCheckedOk
    \/ RunFetchStats \/ RunStatsLoadedOk
    \/ RunFetchSyncStatus \/ RunSyncStatusLoadedOk
    \/ UserBrowseSenders \/ UserGoBack
    \/ RunFetchAggregates \/ RunAggregatesLoadedOk
    \/ UserDrillDown \/ RunFetchMessages \/ RunMessagesLoaded
    \/ UserNextPage \/ UserPreviousPage

PageSpec == Init /\ [][PageNext]_vars

\* selecting in a message list while its pages are fetched
ListNext ==
    \/ RunCheckHealth \/ RunHealthCheckedOk
    \/ RunFetchStats \/ RunStatsLoadedOk
    \/ RunFetchSyncStatus \/ RunSyncStatusLoadedOk
    \/ UserBrowseSenders \/ RunFetchAggregates \/ RunAggregatesLoadedOk
    \/ UserDrillDown \/ RunFetchMessages \/ RunMessagesLoadedOk
    \/ UserSelectMessage \/ UserNextPage \/ UserPreviousPage

ListSpec == Init /\ [][ListNext]_vars

\* selecting messages in a message list and in the search view
SelNext ==
    \/ RunCheckHealth \/ RunHealthCheckedOk
    \/ RunFetchStats \/ RunStatsLoadedOk
    \/ RunFetchSyncStatus \/ RunSyncStatusLoadedOk
    \/ UserBrowseSenders \/ RunFetchAggregates \/ RunAggregatesLoadedOk
    \/ UserDrillDown \/ RunFetchMessages \/ RunMessagesLoadedOk
    \/ UserSelectMessage
    \/ UserOpenSearch \/ UserSearchQueryChanged
    \/ RunExecuteSearch \/ RunSearchLoadedOk \/ UserSelectSearchResult
    \/ UserPressSpace \/ RunToggleSelection


SelSpec == Init /\ [][SelNext]_vars

\* adding an account: the OAuth browser flow and the device flow
AcctNext ==
    \/ RunCheckHealth \/ RunHealthCheckedOk
    \/ RunFetchStats \/ RunStatsLoadedOk
    \/ RunFetchSyncStatus \/ RunSyncStatusLoadedOk
    \/ UserOpenAccounts
    \/ UserAddAccountEmailChanged \/ UserStartAddAccount
    \/ RunOAuthInitiated \/ RunOpenOAuthBrowser
    \/ UserPollDeviceFlow \/ RunDeviceFlowStatusReceived
    \/ UserCancelAddAccount

AcctSpec == Init /\ [][AcctNext]_vars

NavSpec == Init /\ [][NavNext]_vars

\* titles and breadcrumb trails of every view
TitleNext == CallTitle \/ CallBreadcrumbs

TitleSpec == Init /\ [][TitleNext]_vars

\* first launch: discovery, the wizard, and connecting
WizInit ==
    /\ NavInit
    /\ \E settings \in {Settings_default, StartupSettings} :
          MsgVaultApp_new(settings)
    /\ object = None

WizNext ==
    \/ RunStartDiscovery \/ RunDiscoveryComplete
    \/ UserConfirmDiscoveredServer \/ UserChooseManualEntry
    \/ UserWizardServerUrlChanged \/ UserWizardApiKeyChanged
    \/ UserFinishWizard
    \/ UserCheckHealth \/ UserServerUrlChanged
    \/ RunCheckHealth \/ RunHealthChecked
    \/ RunFetchStats \/ RunStatsLoadedOk
    \/ RunFetchSyncStatus \/ RunSyncStatusLoadedOk

WizSpec == WizInit /\ [][WizNext]_vars

\* the runtime completes every command it was handed; the user owes nothing
WizFair ==
    /\ WF_vars(RunStartDiscovery) /\ WF_vars(RunDiscoveryComplete)
    /\ WF_vars(RunCheckHealth) /\ WF_vars(RunHealthChecked)
    /\ WF_vars(RunFetchStats) /\ WF_vars(RunStatsLoadedOk)
    /\ WF_vars(RunFetchSyncStatus) /\ WF_vars(RunSyncStatusLoadedOk)

WizLive == WizSpec /\ WizFair

\* a thread view's state driven by its methods
ThreadInit ==
    /\ stack = NavigationStack_new
    /\ before = ThreadState_new
    /\ call = <<"new">>
    /\ ret = FALSE
    /\ AppInit
    /\ object = ThreadState_new

ThreadNext ==
    \/ CallLoadMessages \/ CallToggleExpanded
    \/ CallExpandAll \/ CallCollapseAll
    \/ CallFocusPrevious \/ CallFocusNext
    \/ CallClear

ThreadSpec == ThreadInit /\ [][ThreadNext]_vars

\* opening a message and downloading its attachments
DlNext ==
    \/ RunCheckHealth \/ RunHealthCheckedOk
    \/ RunFetchStats \/ RunStatsLoadedOk
    \/ RunFetchSyncStatus \/ RunSyncStatusLoadedOk
    \/ UserBrowseSenders \/ RunFetchAggregates \/ RunAggregatesLoadedOk
    \/ UserDrillDown \/ RunFetchMessages \/ RunMessagesLoadedOk
    \/ UserSelectMessage \/ UserOpenMessage \/ RunMessageDetailLoadedOk
    \/ UserDownloadAttachment \/ RunDownloadFinished
    \/ UserGoBack \/ UserJumpToBreadcrumb

DlSpec == Init /\ [][DlNext]_vars

\* the runtime completes every command it was handed; the user owes nothing
DlFair ==
    /\ WF_vars(RunCheckHealth) /\ WF_vars(RunHealthCheckedOk)
    /\ WF_vars(RunFetchStats) /\ WF_vars(RunStatsLoadedOk)
    /\ WF_vars(RunFetchSyncStatus) /\ WF_vars(RunSyncStatusLoadedOk)
    /\ WF_vars(RunFetchAggregates) /\ WF_vars(RunAggregatesLoadedOk)
    /\ WF_vars(RunFetchMessages) /\ WF_vars(RunMessagesLoadedOk)
    /\ WF_vars(RunMessageDetailLoadedOk) /\ WF_vars(RunDownloadFinished)

DlLive == DlSpec /\ DlFair

\* reading messages with the keyboard
DetailNext ==
    \/ RunCheckHealth \/ RunHealthCheckedOk
    \/ RunFetchStats \/ RunStatsLoadedOk
    \/ RunFetchSyncStatus \/ RunSyncStatusLoadedOk
    \/ UserBrowseSenders \/ RunFetchAggregates \/ RunAggregatesLoadedOk
    \/ UserDrillDown \/ RunFetchMessages \/ RunMessagesLoadedOk
    \/ UserOpenMessage \/ RunMessageDetailLoadedOk
    \/ UserPressKey
    \/ RunGoBack \/ RunPreviousMessage \/ RunNextMessage \/ RunOpenMessage
    \/ RunToggleSortDirection

DetailSpec == Init /\ [][DetailNext]_vars

\* reading the thread of a message
ConvNext ==
    \/ RunCheckHealth \/ RunHealthCheckedOk
    \/ RunFetchStats \/ RunStatsLoadedOk
    \/ RunFetchSyncStatus \/ RunSyncStatusLoadedOk
    \/ UserBrowseSenders \/ RunFetchAggregates \/ RunAggregatesLoadedOk
    \/ UserDrillDown \/ RunFetchMessages \/ RunMessagesLoadedOk
    \/ UserOpenMessage \/ RunMessageDetailLoadedOk
    \/ UserPressThreadKey \/ RunGoBack
    \/ RunViewThread \/ RunThreadLoaded
    \/ RunExpandAllThread \/ RunCollapseAllThread
    \/ RunThreadFocusPrevious \/ RunThreadFocusNext

ConvSpec == Init /\ [][ConvNext]_vars

\* saving the settings while moving between views
SetNext ==
    \/ RunCheckHealth \/ RunHealthCheckedOk
    \/ RunFetchStats \/ RunStatsLoadedOk
    \/ RunFetchSyncStatus \/ RunSyncStatusLoadedOk
    \/ UserBrowseSenders \/ RunFetchAggregates \/ RunAggregatesLoadedOk
    \/ UserOpenSettings \/ UserSaveSettings \/ RunSettingsSaved
    \/ UserGoBack

SetSpec == Init /\ [][SetNext]_vars

\* writing a draft and closing it
ComposeNext ==
    \/ RunCheckHealth \/ RunHealthCheckedOk
    \/ RunFetchStats \/ RunStatsLoadedOk
    \/ RunFetchSyncStatus \/ RunSyncStatusLoadedOk
    \/ UserOpenCompose
    \/ UserComposeToChanged \/ UserComposeAddTo \/ UserComposeSubjectChanged
    \/ UserComposeSend \/ UserComposeDiscard \/ UserComposeClose

ComposeSpec == Init /\ [][ComposeNext]_vars

\* a download tracker driven by its methods
TrackerInit ==
    /\ stack = NavigationStack_new
    /\ before = DownloadTracker_new
    /\ call = <<"new">>
    /\ ret = FALSE
    /\ AppInit
    /\ object = DownloadTracker_new

TrackerNext ==
    \/ CallSetDownloading \/ CallSetComplete \/ CallSetFailed
    \/ CallTrackerClear \/ CallClearMessage \/ CallClearAll

TrackerSpec == TrackerInit /\ [][TrackerNext]_vars

----------------------------------------------------------------------------
(* Properties *)

\* the breadcrumb trail of a stack: its history, then its current view
Entries(nav) == Append(nav.history, current(nav))

Front(seq) == SubSeq(seq, 1, Len(seq) - 1)
Last(seq) == seq[Len(seq)]

\* C1: for a stack built with new() and any sequence of push, pop, jump_to
\* (any index) and reset, the internal current is never None, current()
\* returns it, and can_go_back() is true exactly when history is non-empty.
C1_CurrentNeverAbsent ==
    /\ stack.current # None
    /\ Some(current(stack)) = stack.current
    /\ can_go_back(stack) <=> (stack.history # <<>>)
    /\ can_go_back(stack) <=> pop(stack).ret

C1_Witness ==
    /\ call = <<"reset">>
    /\ before.history # <<>>
    /\ stack.current = Some(Dashboard)
    /\ ~can_go_back(stack)

\* C2: jump_to(i) with i < len(history) leaves the first i entries as history
\* and the entry at i as current; pop and jump_to only ever move to a prefix
\* of the trail, so what was cut off is never reached again; the example
\* history [A,B,C], current D, jump_to(1) gives history [A], current B.
C2_JumpToTruncates ==
    /\ (call[1] = "jump_to" /\ call[2] < Len(before.history)) =>
          /\ stack.history = SubSeq(before.history, 1, call[2])
          /\ stack.current = Some(before.history[call[2] + 1])
          /\ Entries(stack) = SubSeq(Entries(before), 1, call[2] + 1)
    /\ (call[1] \in {"pop", "jump_to"}) =>
          \E k \in 1 .. Len(Entries(before)) :
              Entries(stack) = SubSeq(Entries(before), 1, k)
    /\ jump_to([history |-> <<Dashboard, Aggregates("Senders"), Messages("f1")>>,
                current |-> Some(MessageDetail(1))], 1)
         = [history |-> <<Dashboard>>, current |-> Some(Aggregates("Senders"))]

C2_Witness ==
    /\ call = <<"jump_to", 1>>
    /\ Len(before.history) = 3
    /\ Len(stack.history) = 1
    /\ stack.current = Some(before.history[2])

\* C3: pop() returns true exactly when history was non-empty; then current is
\* the former last entry and that entry is removed; on an empty history it
\* returns false and changes nothing; push(v) then pop() restores the stack.
C3_PopRestores ==
    /\ (call = <<"pop">>) =>
          /\ ret <=> (before.history # <<>>)
          /\ IF before.history # <<>>
             THEN /\ stack.current = Some(Last(before.history))
                  /\ stack.history = Front(before.history)
             ELSE stack = before
    /\ (call[1] = "push") =>
          /\ stack.history = Append(before.history, current(before))
          /\ stack.current = Some(call[2])
    /\ \A view \in NavViews :
          pop(push(stack, view)) = [nav |-> stack, ret |-> TRUE]

C3_Witness ==
    /\ call = <<"pop">>
    /\ ret
    /\ Len(before.history) = 2
    /\ stack.current = Some(before.history[2])

\* C4: HealthChecked(Ok) sets connection_status to Connected and emits exactly
\* FetchStats and FetchSyncStatus; HealthChecked(Err(e)) sets it to Failed(e)
\* and emits nothing.
C4_HealthCheckedEmits ==
    (lastMsg[1] = "HealthChecked") =>
        IF lastMsg[2][1] = "Ok"
        THEN /\ state.connection_status = Connected
             /\ Len(emitted) = 2
             /\ {emitted[1], emitted[2]}
                  = {Done(<<"FetchStats">>), Done(<<"FetchSyncStatus">>)}
        ELSE /\ state.connection_status = Failed(to_string(lastMsg[2][2]))
             /\ emitted = <<>>

C4_Witness ==
    /\ lastMsg = <<"HealthChecked", Ok("ok")>>
    /\ state.connection_status = Connected
    /\ Len(emitted) = 2

StatsInFlight(c) == c[1] = "Perform" /\ c[3] = "StatsLoaded"
SyncStatusInFlight(c) == c[1] = "Perform" /\ c[3] = "SyncStatusLoaded"

\* C5: when the stats fetch and the sync-status fetch are both in flight, the
\* state after both completions is the same whichever is handled first, for
\* every combination of Ok and Err results.
C5_CompletionsCommute ==
    \A c1 \in BagToSet(pending), c2 \in BagToSet(pending) :
        (StatsInFlight(c1) /\ SyncStatusInFlight(c2)) =>
            \A r1 \in ResultsFor(c1[2], AppErrors), r2 \in ResultsFor(c2[2], AppErrors) :
                SyncStatusLoaded(StatsLoaded(state, r1).state, r2).state
                  = StatsLoaded(SyncStatusLoaded(state, r2).state, r1).state

\* the screen whose command a result message answers
IssuingScreen(name) ==
    CASE name = "StatsLoaded" -> "Dashboard"
      [] name = "AggregatesLoaded" -> "Aggregates"
      [] name = "MessagesLoaded" -> "Messages"
      [] name = "SyncStatusLoaded" -> "Sync"
      [] name = "SyncTriggered" -> "Sync"

IsErrResult(msg) ==
    /\ msg[1] \in {"StatsLoaded", "AggregatesLoaded", "MessagesLoaded",
                   "SyncStatusLoaded", "SyncTriggered"}
    /\ msg[2][1] = "Err"

\* C6: handling an async result that carries an Err emits no command, and
\* records the error where only the issuing screen shows it: what any other
\* current screen displays is unchanged.
C6_ErrorsAreScreenLocal ==
    [][IsErrResult(lastMsg') =>
          /\ emitted' = <<>>
          /\ (IssuingScreen(lastMsg'[1]) # current(state.navigation)[1]) =>
                connected_view(state') = connected_view(state)]_vars

ClaimedNextSortField(sort_field) ==
    CASE sort_field = "Name" -> "Count"
      [] sort_field = "Count" -> "Size"
      [] sort_field = "Size" -> "AttachmentSize"
      [] sort_field = "AttachmentSize" -> "Name"

AggregatesRequest(s, view_type) ==
    <<Perform(<<"aggregates", ApiClient(s), <<view_type, s.sort_field, s.sort_dir>>>>,
              "AggregatesLoaded")>>

C8_BackRefetchesAggregates ==
    (lastMsg[1] \in {"GoBack", "JumpToBreadcrumb"}) =>
        IF IsAggregates(current(state.navigation))
        THEN LET vt == current(state.navigation)[2]
             IN /\ emitted = <<Done(<<"FetchAggregates", vt>>)>>
                /\ handle(state, emitted[1][2]).task = AggregatesRequest(state, vt)
        ELSE emitted = <<>>

C8_Witness ==
    /\ lastMsg = <<"JumpToBreadcrumb", 1>>
    /\ current(state.navigation) = Aggregates("Domains")
    /\ Len(state.navigation.history) = 1
    /\ state.sort_field = "Size"
    /\ emitted = <<Done(<<"FetchAggregates", "Domains">>)>>

EmitsFetch(task, name) ==
    \E i \in DOMAIN task : task[i][1] = "Done" /\ task[i][2][1] = name

\* C9: after NavigateTo, GoBack or JumpToBreadcrumb, whenever the resulting
\* current view is a list view (Aggregates or Messages) a fetch for that view
\* is emitted.
C9_NavigationRefetchesLists ==
    (lastMsg[1] \in {"NavigateTo", "GoBack", "JumpToBreadcrumb"}) =>
        /\ IsAggregates(current(state.navigation)) =>
              Done(<<"FetchAggregates", current(state.navigation)[2]>>)
                \in {emitted[i] : i \in DOMAIN emitted}
        /\ IsMessages(current(state.navigation)) =>
              EmitsFetch(emitted, "FetchMessages")

MessagesRequest(s) ==
    <<Perform(<<"messages_filter", ApiClient(s),
                <<s.filter_type, s.filter_value, s.messages_offset, MessagesLimit>>>>,
              "MessagesLoaded")>>

\* C10: NextPage moves messages_offset to offset+limit if that is below
\* messages_total, PreviousPage to max(0, offset-limit) if offset > 0; exactly
\* when the offset changes one FetchMessages with the stored filter is
\* emitted, whose request uses the new offset; otherwise nothing changes and
\* nothing is emitted.
C10_PagingRefetches ==
    [][(lastMsg'[1] \in {"NextPage", "PreviousPage"}) =>
          LET offset == state.messages_offset
              limit == state.messages_limit
              moves == IF lastMsg'[1] = "NextPage"
                       THEN offset + limit < state.messages_total
                       ELSE offset > 0
              target == IF lastMsg'[1] = "NextPage"
                        THEN offset + limit
                        ELSE IF offset - limit > 0 THEN offset - limit ELSE 0
          IN IF moves
             THEN /\ state' = [state EXCEPT !.messages_offset = target]
                  /\ target # offset
                  /\ emitted' = <<Done(<<"FetchMessages", state.filter_type,
                                         state.filter_value>>)>>
                  /\ handle(state', emitted'[1][2]).task = MessagesRequest(state')
             ELSE /\ state' = state
                  /\ emitted' = <<>>]_vars

C10_Witness ==
    /\ lastMsg = <<"NextPage">>
    /\ state.messages_offset = 100
    /\ state.messages_total = 120
    /\ Len(emitted) = 1

SelectedEntry(s) ==
    LET view == current(s.navigation)
    IN CASE IsMessages(view) /\ s.message_selected_index < Len(s.messages) ->
              {s.messages[s.message_selected_index + 1]}
         [] view = Search /\ s.search_selected_index < Len(s.search_results) ->
              {s.search_results[s.search_selected_index + 1]}
         [] OTHER -> {}

\* C11: ToggleSelection toggles membership in selected_messages of exactly
\* one id: in a Messages view the id at message_selected_index of messages,
\* in the Search view the id at search_selected_index of search_results; in
\* any other view, or when the index has no entry, nothing changes; no
\* command is emitted in any case.
C11_ToggleSelectionByView ==
    [][(lastMsg' = <<"ToggleSelection">>) =>
          LET id == SelectedEntry(state)
              old == state.selected_messages
          IN /\ emitted' = <<>>
             /\ state' = [state EXCEPT !.selected_messages = (old \ id) \cup (id \ old)]
             /\ Cardinality(id) <= 1]_vars

C11_Witness ==
    /\ lastMsg = <<"ToggleSelection">>
    /\ current(state.navigation) = Search
    /\ state.search_selected_index = 1
    /\ state.selected_messages = {2, 3}

\* further cases of C11 that the behaviours reach: a ToggleSelection handled
\* after the view changed, one on an empty list, and one that deselects
C11_OtherView ==
    /\ lastMsg = <<"ToggleSelection">>
    /\ IsAggregates(current(state.navigation))
    /\ state.search_results # <<>>

C11_NoEntry ==
    /\ lastMsg = <<"ToggleSelection">>
    /\ IsMessages(current(state.navigation))
    /\ state.messages = <<>>

C11_Untoggle ==
    /\ lastMsg = <<"ToggleSelection">>
    /\ IsMessages(current(state.navigation))
    /\ state.message_selected_index = 1
    /\ state.selected_messages = {1}

\* the add-account machine: (email, adding, response, polling)
AddAccountState(s) ==
    <<s.add_account_email, s.adding_account, s.oauth_response, s.polling_device_flow>>

AddAccountIdle(s) == AddAccountState(s) = <<"", FALSE, None, FALSE>>

IsAddAccountResult(msg) == msg[1] \in {"OAuthInitiated", "DeviceFlowStatusReceived"}

\* C12: CancelAddAccount resets the add-account machine to Idle and emits
\* nothing, and the result of an initiate or poll command issued before the
\* cancel that arrives right after it leaves the machine Idle.
C12_CancelDiscardsInFlight ==
    [][/\ (lastMsg' = <<"CancelAddAccount">>) =>
              (AddAccountIdle(state') /\ emitted' = <<>>)
       /\ (lastMsg = <<"CancelAddAccount">> /\ IsAddAccountResult(lastMsg')) =>
              AddAccountIdle(state')]_vars

AddAccountInFlight(c) ==
    c[1] = "Perform" /\ c[3] \in {"OAuthInitiated", "DeviceFlowStatusReceived"}

\* C13: from any reachable state, CancelAddAccount, a fresh email and
\* StartAddAccount give the add-account state and the command that
\* StartAddAccount gives from the initial state, and no result of the earlier
\* attempt that is still in flight changes the new attempt.
C13_RestartIsFresh ==
    \A email \in Emails \ {""} :
        LET typed(s) == AddAccountEmailChanged(s, email).state
            restarted == StartAddAccount(typed(CancelAddAccount(state).state))
            fresh == StartAddAccount(typed(AppState_new(StartupSettings)))
        IN /\ AddAccountState(restarted.state) = AddAccountState(fresh.state)
           /\ restarted.task = fresh.task
           /\ \A c \in BagToSet(pending) :
                 AddAccountInFlight(c) =>
                    \A result \in ResultsFor(c[2], OneError) :
                        AddAccountState(handle(restarted.state, <<c[3], result>>).state)
                          = AddAccountState(restarted.state)

\* C14: StartAddAccount with an empty add_account_email changes nothing and
\* emits nothing; with a non-empty email it sets adding_account and emits
\* exactly one OAuth-initiate command for that email.
C14_StartAddAccountGuard ==
    [][/\ (lastMsg' = <<"StartAddAccount">>) =>
              IF state.add_account_email = ""
              THEN state' = state /\ emitted' = <<>>
              ELSE /\ state' = [state EXCEPT !.adding_account = TRUE]
                   /\ emitted' = <<Perform(<<"initiate_oauth", ApiClient(state),
                                             <<state.add_account_email>>>>,
                                           "OAuthInitiated")>>
       /\ LET empty == [state EXCEPT !.add_account_email = ""]
          IN handle(empty, <<"StartAddAccount">>) =
                [state |-> empty, task |-> <<>>, io |-> <<>>]]_vars

C14_Witness ==
    /\ lastMsg = <<"StartAddAccount">>
    /\ state.adding_account
    /\ state.add_account_email = "b@x"
    /\ Len(emitted) = 1
    /\ emitted[1][2][1] = "initiate_oauth"

\* C15: OAuthInitiated(Ok) with device_flow false emits exactly one
\* OpenOAuthBrowser(auth_url) and returns the add-account machine to Idle:
\* adding_account false, not polling, no pending flow shown.
C15_BrowserFlowReturnsToIdle ==
    (lastMsg[1] = "OAuthInitiated" /\ lastMsg[2][1] = "Ok"
       /\ ~lastMsg[2][2].device_flow) =>
        /\ emitted = <<Done(<<"OpenOAuthBrowser", lastMsg[2][2].auth_url>>)>>
        /\ ~state.adding_account
        /\ ~state.polling_device_flow
        /\ add_account_section(state.add_account_email, state.adding_account,
                               state.oauth_response)[1] = "form"

IssuesPoll(task) ==
    \E i \in DOMAIN task :
        task[i][1] = "Perform" /\ task[i][2][1] = "check_device_flow"

\* C16: a device-flow status request is issued only by handling
\* PollDeviceFlow while polling_device_flow is true; OAuthInitiated(Ok) with
\* device_flow true stores the response and enables polling without issuing
\* a poll; a Pending poll result changes no state and emits nothing.
C16_PollingIsManual ==
    [][/\ IssuesPoll(emitted') =>
              /\ lastMsg' = <<"PollDeviceFlow">>
              /\ state.polling_device_flow
              /\ Len(emitted') = 1
       /\ (lastMsg' = <<"PollDeviceFlow">> /\ ~state.polling_device_flow) =>
              (state' = state /\ emitted' = <<>>)
       /\ (lastMsg'[1] = "OAuthInitiated" /\ lastMsg'[2][1] = "Ok"
             /\ lastMsg'[2][2].device_flow) =>
              /\ state' = [state EXCEPT !.oauth_response = Some(lastMsg'[2][2]),
                                         !.polling_device_flow = TRUE]
              /\ emitted' = <<>>
       /\ (lastMsg'[1] = "DeviceFlowStatusReceived" /\ lastMsg'[2][1] = "Ok"
             /\ lastMsg'[2][2].status = "Pending") =>
              (state' = state /\ emitted' = <<>>)]_vars

C16_Witness ==
    /\ lastMsg[1] = "DeviceFlowStatusReceived"
    /\ lastMsg[2][1] = "Ok"
    /\ lastMsg[2][2].status = "Pending"
    /\ state.polling_device_flow
    /\ state.oauth_response # None
    /\ emitted = <<>>

\* C17: a poll result Complete clears adding_account, polling_device_flow,
\* oauth_response and add_account_email, and emits exactly one
\* FetchSyncStatus.
C17_CompleteClearsFlow ==
    [][(lastMsg'[1] = "DeviceFlowStatusReceived" /\ lastMsg'[2][1] = "Ok"
         /\ lastMsg'[2][2].status = "Complete") =>
          /\ state' = [state EXCEPT !.adding_account = FALSE,
                                     !.polling_device_flow = FALSE,
                                     !.oauth_response = None,
                                     !.add_account_email = ""]
          /\ AddAccountIdle(state')
          /\ emitted' = <<Done(<<"FetchSyncStatus">>)>>]_vars

C17_Witness ==
    /\ lastMsg[1] = "DeviceFlowStatusReceived"
    /\ lastMsg[2][1] = "Ok"
    /\ lastMsg[2][2].status = "Complete"
    /\ AddAccountIdle(state)
    /\ emitted = <<Done(<<"FetchSyncStatus">>)>>

\* C18: a poll result Expired or Error puts the error message (or the
\* default 'Device flow failed') into the error slot, emits nothing, and
\* returns the add-account machine to Idle with no device code or
\* verification URL still held or displayed.
C18_FailedPollReturnsToIdle ==
    (lastMsg[1] = "DeviceFlowStatusReceived" /\ lastMsg[2][1] = "Ok"
       /\ lastMsg[2][2].status \in {"Expired", "Error"}) =>
        /\ state.loading = Error(IF lastMsg[2][2].error # None
                                  THEN lastMsg[2][2].error[2]
                                  ELSE "Device flow failed")
        /\ emitted = <<>>
        /\ ~state.adding_account
        /\ ~state.polling_device_flow
        /\ state.oauth_response = None
        /\ add_account_section(state.add_account_email, state.adding_account,
                               state.oauth_response)[1] # "device_flow_section"

\* the candidates of a run, in the order the chain is to try them
ConfigCandidate(file, source, name) ==
    [url |-> IF file.exists /\ file.server_url # "" THEN Some(file.server_url) ELSE None,
     source |-> source, name |-> name]

Candidates(env) ==
    <<IF env.home # None
      THEN ConfigCandidate(env.home[2], <<"EnvVar">>, <<"MSGVAULT_HOME">>)
      ELSE [url |-> None, source |-> <<"EnvVar">>, name |-> <<"MSGVAULT_HOME">>]>>
    \o [i \in 1 .. Len(env.files) |->
          ConfigCandidate(env.files[i], <<"ConfigFile", i>>, <<"Config: ", i>>)]
    \o <<[url |-> Some("http://localhost:8080"), source |-> <<"LocalhostProbe", 8080>>,
          name |-> <<"Probe: localhost:", 8080>>],
         [url |-> Some("http://localhost:8081"), source |-> <<"LocalhostProbe", 8081>>,
          name |-> <<"Probe: localhost:", 8081>>],
         [url |-> Some("http://localhost:3000"), source |-> <<"LocalhostProbe", 3000>>,
          name |-> <<"Probe: localhost:", 3000>>],
         [url |-> Some("http://localhost:9000"), source |-> <<"LocalhostProbe", 9000>>,
          name |-> <<"Probe: localhost:", 9000>>]>>

\* the candidates whose URL is present and whose ping is answered
Winners(env) ==
    {k \in 1 .. Len(Candidates(env)) : Candidates(env)[k].url # None /\ env.answers[k]}

FirstWinner(env) == CHOOSE k \in Winners(env) : \A j \in Winners(env) : k <= j

\* how many candidates the chain is to attempt
Attempted(env) ==
    IF Winners(env) # {} THEN FirstWinner(env) ELSE Len(Candidates(env))

HasPresentUrl(candidate) == candidate.url # None

\* the URLs of the first n candidates that have one, in order
PresentUrls(env, n) ==
    LET present == SelectSeq(SubSeq(Candidates(env), 1, n), HasPresentUrl)
    IN [j \in 1 .. Len(present) |-> present[j].url[2]]

\* C19: discover_server probes MSGVAULT_HOME, then each default config path
\* in list order, then localhost 8080, 8081, 3000, 9000; it returns the first
\* candidate whose URL is present and answers the ping, tagged with that
\* candidate's source, and pings nothing after it; an unreachable env-var
\* candidate does not end the chain; if none succeeds the source is
\* NeedsWizard and there is no server_url.
C19_ProbeOrder ==
    (call[1] = "discover_server") =>
        LET env == call[2]
            result == ret.result
        IN /\ ret.pinged = PresentUrls(env, Attempted(env))
           /\ IF Winners(env) # {}
              THEN /\ result.source = Candidates(env)[FirstWinner(env)].source
                   /\ result.server_url = Candidates(env)[FirstWinner(env)].url
              ELSE /\ result.source = <<"NeedsWizard">>
                   /\ result.server_url = None

C19_Witness ==
    /\ call[1] = "discover_server"
    /\ call[2].home # None
    /\ HasUrl(call[2].home[2])
    /\ ~call[2].answers[1]
    /\ ~HasUrl(call[2].files[1])
    /\ ret.result.source = <<"ConfigFile", 2>>
    /\ ret.pinged = <<"http://vault:8080", "http://vault:8080">>

\* C20: every candidate discover_server attempts appends exactly one
\* DiscoveryStep, in probe order, whatever its outcome; in a successful
\* result the last step is Found(url) for the returned server_url and all
\* earlier steps are NotFound; in a NeedsWizard result no step is Found;
\* found_server() is true exactly when the source is not NeedsWizard.
C20_StepsRecordEveryAttempt ==
    (call[1] = "discover_server") =>
        LET env == call[2]
            result == ret.result
            steps == result.steps
            n == Attempted(env)
        IN /\ Len(steps) >= n
           /\ \A j \in 1 .. n : steps[j].name = Candidates(env)[j].name
           /\ found_server(result) <=> (result.source # <<"NeedsWizard">>)
           /\ found_server(result) <=> ~needs_wizard(result)
           /\ IF result.source # <<"NeedsWizard">>
              THEN /\ Len(steps) = n
                   /\ steps[n].status[1] = "Found"
                   /\ Some(steps[n].status[2]) = result.server_url
                   /\ \A j \in 1 .. (n - 1) : steps[j].status = <<"NotFound">>
              ELSE /\ \A j \in 1 .. Len(steps) : steps[j].status[1] # "Found"
                   /\ Len(steps) = n + 1

C20_Witness ==
    /\ call[1] = "discover_server"
    /\ call[2].home # None
    /\ HasUrl(call[2].home[2])
    /\ ret.result.source = <<"LocalhostProbe", 3000>>
    /\ Len(ret.result.steps) = NumConfigPaths + 4
    /\ ret.result.steps[Len(ret.result.steps)].status
         = <<"Found", "http://localhost:3000">>


\* the discovery and wizard events
WizardEvents ==
    {"StartDiscovery", "DiscoveryComplete", "ConfirmDiscoveredServer",
     "ChooseManualEntry", "WizardServerUrlChanged", "WizardApiKeyChanged",
     "FinishWizard"}

\* C21: connection_status becomes Connected only in the step that handles
\* HealthChecked(Ok); no discovery or wizard event changes connection_status
\* to Connected, so a discovered server is not shown as connected before a
\* health check succeeded.
C21_ConnectedOnlyByHealthCheck ==
    [][/\ (is_connected(state') /\ ~is_connected(state)) =>
              (lastMsg'[1] = "HealthChecked" /\ IsOk(lastMsg'[2]))
       /\ (lastMsg'[1] \in WizardEvents /\ state' # state) =>
              ~is_connected(state')]_vars

\* a discovered server, confirmed in the wizard, is connected by the health
\* check that followed
C21_Witness ==
    /\ is_connected(state)
    /\ lastMsg[1] = "HealthChecked"
    /\ state.discovery_result # None
    /\ found_server(Unwrap(state.discovery_result))
    /\ Some(state.server_url) = Unwrap(state.discovery_result).server_url

\* C22: once DiscoveryComplete with a found server was handled, a
\* CheckHealth event for that server follows with no step other than the
\* runtime's own deliveries in between.
C22_DiscoveryLeadsToCheckHealth ==
    (lastMsg[1] = "DiscoveryComplete" /\ found_server(lastMsg[2]))
        ~> (lastMsg = <<"CheckHealth">>)

\* the last index of a thread's messages
LastIndex(t) == Len(t.messages) - 1

\* C23: after load_messages with n >= 1 messages, expanded has n entries,
\* entries 0..n-2 are collapsed, entry n-1 is expanded, and focused_index
\* is n-1.
C23_LoadExpandsMostRecent ==
    [][(call'[1] = "load_messages" /\ call'[3] >= 1) =>
          LET n == call'[3]
          IN /\ Len(object'.messages) = n
             /\ Len(object'.expanded) = n
             /\ \A i \in 0 .. n - 2 : ~is_expanded(object', i)
             /\ is_expanded(object', n - 1)
             /\ object'.focused_index = n - 1]_vars

\* a thread of three messages was loaded over one that had other entries
\* expanded and another focus
C23_Witness ==
    /\ call[1] = "load_messages"
    /\ call[3] = 3
    /\ Len(before.expanded) >= 2
    /\ before.expanded[1]
    /\ before.focused_index = 0
    /\ object.focused_index = 2

\* C24: toggle_expanded(i) with a valid i flips entry i and nothing else, and
\* a second toggle_expanded(i) gives back the state before the first; with an
\* out-of-range i the call changes nothing.
C24_ToggleExpandedInvolution ==
    [][call'[1] = "toggle_expanded" =>
          LET i == call'[2]
          IN IF i < Len(object.expanded)
             THEN /\ object' = [object EXCEPT !.expanded[i + 1] = ~@]
                  /\ is_expanded(object', i) # is_expanded(object, i)
                  /\ toggle_expanded(object', i) = object
             ELSE object' = object]_vars

\* an entry of a loaded thread was toggled back to what load_messages made it
C24_Witness ==
    /\ call[1] = "toggle_expanded"
    /\ call[2] < Len(object.expanded)
    /\ object # before
    /\ Len(object.messages) >= 2
    /\ object = load_messages(ThreadState_new, Unwrap(object.thread_id),
                              object.messages)

\* an out-of-range toggle on a loaded thread
C24_OutOfRange ==
    /\ call[1] = "toggle_expanded"
    /\ call[2] >= Len(object.expanded)
    /\ Len(object.expanded) >= 1
    /\ object = before

\* C25: focus_previous moves focused_index down by one unless it is 0, and
\* focus_next moves it up by one unless it is the last message index (when
\* there is no message after it: the thread is empty, or the focus is on or
\* past the last message); at a boundary the call changes nothing, and
\* focused_index never wraps around.
C25_FocusClamps ==
    [][/\ call'[1] = "focus_previous" =>
             object' = [object EXCEPT !.focused_index =
                                         IF @ = 0 THEN 0 ELSE @ - 1]
       /\ call'[1] = "focus_next" =>
             /\ object' = [object EXCEPT !.focused_index =
                                            IF @ >= LastIndex(object)
                                            THEN @ ELSE @ + 1]
             /\ object'.focused_index >= object.focused_index
       /\ (Len(object.messages) >= 1
             /\ call'[1] \in {"focus_previous", "focus_next"}) =>
             object'.focused_index \in 0 .. LastIndex(object)]_vars

\* focus_next on the last message of a thread of three left the focus there
C25_Witness ==
    /\ call[1] = "focus_next"
    /\ Len(object.messages) = 3
    /\ before.focused_index = 2
    /\ object.focused_index = 2

\* focus_previous on the first message left the focus there
C25_AtFirst ==
    /\ call[1] = "focus_previous"
    /\ Len(object.messages) >= 2
    /\ before.focused_index = 0
    /\ object.focused_index = 0

\* C26: breadcrumbs() is the history followed by the current view, each with
\* its title: it is never empty and ends with the current view; every
\* clickable crumb carries an index that jump_to accepts and that leads to
\* the crumb's view; and a jump to crumb i leaves the first i + 1 crumbs of
\* the trail as the new trail.
C26_BreadcrumbsAreHistoryPlusCurrent ==
    /\ [](LET crumbs == breadcrumbs(stack)
          IN /\ crumbs = [i \in 1 .. Len(stack.history) + 1 |->
                            BreadcrumbEntry(Entries(stack)[i])]
             /\ Len(crumbs) >= 1
             /\ Last(crumbs).view = current(stack)
             /\ \A msg \in breadcrumb(crumbs) :
                   /\ msg[2] < Len(stack.history)
                   /\ current(jump_to(stack, msg[2])) = crumbs[msg[2] + 1].view)
    /\ [][(call'[1] = "jump_to"
             /\ <<"JumpToBreadcrumb", call'[2]>> \in breadcrumb(breadcrumbs(stack)))
          => breadcrumbs(stack') =
                SubSeq(breadcrumbs(stack), 1, call'[2] + 1)]_vars

\* a jump from a trail of four crumbs to its second crumb
C26_Witness ==
    /\ call[1] = "jump_to"
    /\ call[2] = 1
    /\ Len(breadcrumbs(before)) = 4
    /\ Len(breadcrumbs(stack)) = 2
    /\ breadcrumbs(stack)[2].view # Dashboard

\* the keys of a tracker, and that two trackers agree on every key but those
\* of changed
Present(t) == DOMAIN t.downloads
AgreeOutside(t1, t2, changed) ==
    \A k \in TrackerKeys \ changed :
        /\ k \in Present(t1) <=> k \in Present(t2)
        /\ get(t1, k[1], k[2]) = get(t2, k[1], k[2])

\* C28: get on a key that is not set returns NotStarted; set_downloading,
\* set_complete and set_failed on (m,i) make get(m,i) return that state
\* whatever it was before and leave every other key as it was; clear(m,i)
\* removes (m,i) only; clear_message(m) removes the keys of m, all of them
\* and no other.
C28_TrackerTouchesOnlyItsKeys ==
    /\ [](\A k \in TrackerKeys \ Present(object) :
              get(object, k[1], k[2]) = NotStarted)
    /\ [][LET k == call'[2]
          IN /\ call'[1] = "set_downloading" =>
                   /\ get(object', k[1], k[2]) = Downloading(clamp(call'[3]))
                   /\ AgreeOutside(object', object, {k})
             /\ call'[1] = "set_complete" =>
                   /\ get(object', k[1], k[2]) = Complete(call'[3])
                   /\ AgreeOutside(object', object, {k})
             /\ call'[1] = "set_failed" =>
                   /\ get(object', k[1], k[2]) = DownloadState_Failed(call'[3])
                   /\ AgreeOutside(object', object, {k})
             /\ call'[1] = "clear" =>
                   /\ k \notin Present(object')
                   /\ AgreeOutside(object', object, {k})
             /\ call'[1] = "clear_message" =>
                   /\ \A x \in Present(object') : x[1] # k
                   /\ AgreeOutside(object', object, {k} \X TrackedIdxs)]_vars

\* clear_message(1) removed both downloads of message 1 and kept the
\* completed one of message 2
C28_Witness ==
    /\ call = <<"clear_message", 1>>
    /\ {<<1, 0>>, <<1, 1>>, <<2, 0>>} \subseteq Present(before)
    /\ Present(object) = {<<2, 0>>}
    /\ get(object, 2, 0) = Complete("/tmp/test.pdf")

\* a set_failed overwrote a download in progress
C28_Overwrite ==
    /\ call[1] = "set_failed"
    /\ get(before, call[2][1], call[2][2]) = Downloading(50)
    /\ get(object, call[2][1], call[2][2]) = DownloadState_Failed("Network error")
    /\ Cardinality(Present(object)) >= 2

\* C27: when GoBack or JumpToBreadcrumb takes the reducer out of the
\* MessageDetail view of message m, the tracker holds no entry (m, *)
\* afterwards, so get(m, i) is NotStarted for every i.
C27_LeavingDetailPrunesDownloads ==
    [][(/\ in_detail(state)
        /\ lastMsg'[1] \in {"GoBack", "JumpToBreadcrumb"}
        /\ current(state'.navigation) # current(state.navigation))
       => \A k \in Present(state'.downloads) :
              k[1] # current(state.navigation)[2]]_vars

\* C29: after the reducer handles ComposeDiscard, ComposeClose or
\* ComposeSent(Ok), the compose state equals a fresh empty draft in every
\* field.
C29_ComposeClearedOnClose ==
    [][(\/ lastMsg'[1] \in {"ComposeDiscard", "ComposeClose"}
        \/ (lastMsg'[1] = "ComposeSent" /\ IsOk(lastMsg'[2])))
       => state'.compose = ComposeState_default]_vars

\* C30: no handle() call performs I/O itself: whatever the event, the call
\* only changes the state and returns commands, and every file write,
\* process spawn and file open happens inside a returned command.
C30_ReducerPerformsNoIO == io = <<>>

\* C31: once DownloadAttachment for a key (m, i) was handled, the running
\* download emits a DownloadProgress event for (m, i): the reducer comes to
\* handle one.
C31_DownloadReportsProgress ==
    \A m \in TrackedMessages, i \in TrackedIdxs :
        (lastMsg[1] = "DownloadAttachment" /\ lastMsg[2] = m /\ lastMsg[3] = i)
            ~> (lastMsg[1] = "DownloadProgress" /\ lastMsg[2] = m /\ lastMsg[3] = i)

\* C32: title() of SubAggregates{parent_key = k, view_type = t} is k, then
\* " → ", then the display name of t, whatever parent_view_type is, and the
\* label of each breadcrumb is title() of the view at its place in the
\* trail.
C32_SubAggregatesTitle ==
    /\ (call[1] = "title" /\ call[2][1] = "SubAggregates")
           => /\ object = <<call[2][3], " → ", display_name(call[2][4])>>
              /\ \A p \in AllViewTypes :
                    object = title(SubAggregates(p, call[2][3], call[2][4]))
              /\ (call[2][3] = "acme.com" /\ call[2][4] = "Labels")
                     => object = <<"acme.com", " → ", "Labels">>
    /\ call[1] = "breadcrumbs"
           => /\ Len(object) = Len(Entries(call[2]))
              /\ \A i \in DOMAIN object :
                    /\ object[i].view = Entries(call[2])[i]
                    /\ object[i].label = title(Entries(call[2])[i])

C32_Witness ==
    /\ call = <<"title", SubAggregates("Senders", "acme.com", "Labels")>>
    /\ object = <<"acme.com", " → ", "Labels">>

C32_InTrail ==
    /\ call[1] = "breadcrumbs"
    /\ \E i \in DOMAIN object :
          /\ object[i].view[1] = "SubAggregates"
          /\ object[i].view[2] # "Labels"
          /\ object[i].label = <<"a@x", " → ", "Labels">>

\* C33: when the reducer is connected and the current view is
\* MessageDetail{message_id}, handling KeyPressed for the character r
\* without shift emits OpenReply(message_id).
C33_ReplyKeyInDetail ==
    [][(/\ is_connected(state)
        /\ in_detail(state)
        /\ lastMsg' = <<"KeyPressed", "r", NoModifiers>>)
       => emitted' = <<Done(<<"OpenReply", current(state.navigation)[2]>>)>>]_vars

\* C40: an OpenMessage that NextMessage or PreviousMessage issued, handled
\* while a MessageDetail view is current, leaves the length of the
\* navigation history as it was.
C40_SteppingKeepsHistory ==
    [][(in_detail(state) /\ lastMsg'[1] = "OpenMessage")
       => Len(state'.navigation.history) = Len(state.navigation.history)]_vars

\* C34: in every reachable state, polling_device_flow holds only while
\* adding_account holds, oauth_response is a response with device_flow set,
\* and the email a poll would be sent for is not empty.
C34_DeviceFlowWellFormed ==
    state.polling_device_flow
        => /\ state.adding_account
           /\ state.oauth_response # None
           /\ Unwrap(state.oauth_response).device_flow
           /\ state.add_account_email # ""

\* C35: in every reachable state an empty search_query comes with an empty
\* search_results and a search_total of 0.
C35_EmptyQueryHasNoResults ==
    state.search_query = ""
        => (state.search_results = <<>> /\ state.search_total = 0)

\* C36: in every reachable state the selected index of each list that is
\* not empty is an index of that list.
C36_SelectedIndexInBounds ==
    /\ state.aggregates # <<>> => state.selected_index < Len(state.aggregates)
    /\ state.messages # <<>> => state.message_selected_index < Len(state.messages)
    /\ state.search_results # <<>>
           => state.search_selected_index < Len(state.search_results)

\* C37: in every reachable state thread.expanded is as long as
\* thread.messages, and focused_index is below the message count of a
\* thread that has messages and 0 in a thread that has none.
C37_ThreadIndicesInBounds ==
    /\ Len(state.thread.expanded) = Len(state.thread.messages)
    /\ IF state.thread.messages = <<>>
       THEN state.thread.focused_index = 0
       ELSE state.thread.focused_index < Len(state.thread.messages)

\* C39: handling ViewThread leaves thread.is_loading true, and it stays
\* true in every step that does not handle ThreadLoaded.
C39_LoadingUntilThreadLoaded ==
    [][/\ lastMsg'[1] = "ViewThread" => state'.thread.is_loading
       /\ (state.thread.is_loading /\ lastMsg'[1] # "ThreadLoaded")
              => state'.thread.is_loading]_vars

\* C38: handling SettingsSaved(Ok) while the current view is not Settings
\* leaves the navigation stack as it was.
C38_SavedPopsOnlySettings ==
    [][(/\ lastMsg'[1] = "SettingsSaved"
        /\ IsOk(lastMsg'[2])
        /\ ~in_settings(state))
       => state'.navigation = state.navigation]_vars

====
